---- MODULE Spec2Model ----
(***************************************************************************)
(* State-machine model of nat2 (koho/nat2): the per-mapping supervisor of  *)
(* src/mapper.rs, the shutdown broadcast of Closer::close, and the UDP and *)
(* TCP hole-punching workers of src/client/udp.rs and src/client/tcp.rs.   *)
(*                                                                         *)
(* Option<T> values are modelled as sequences of length 0 (None) or 1      *)
(* (Some(x)).  Channels are modelled by their buffered contents.           *)
(***************************************************************************)
EXTENDS Integers, Sequences, FiniteSets, TLC

(***************************************************************************)
(* Configuration the model runs with.                                      *)
(***************************************************************************)

\* cfg.map keys: m1 is "udp+upnp://0.0.0.0:5000", m2 is "tcp://0.0.0.0:6000",
\* with "upnp": false in the configuration, so only m1 owns a PortMap.
Mappings == {"m1", "m2"}

LeaseHolders == {"m1"}

\* Number of (watcher, metadata) pairs configured for each mapping.
NumWatchers == 2

\* Mapped addresses the STUN servers may report.
Addrs == { [ip |-> "9.9.9.9", port |-> 6000], [ip |-> "9.9.9.9", port |-> 6005] }

\* The duration in seconds of a port mapping on the gateway.
MAPPING_DURATION == 3600

\* Renew the mapping every half of MAPPING_DURATION.
MAPPING_TIMEOUT == MAPPING_DURATION \div 2

\* Unix time at which add_port stamped the leases, and the clock's step.
StartTime == 900

TickStep == 900

\* Number of clock steps the model lets pass.
MaxTicks == 2

\* The mapping served by the UDP worker and the one served by the TCP worker.
UdpM == "m1"

TcpM == "m2"

\* Size of the STUN server pool (stun_addrs.len()).
NumServers == 2

\* Number of transaction ids the UDP worker draws.
MaxTx == 3

\* MappedAddress::default()
DefaultAddr == [ip |-> "0.0.0.0", port |-> 0]

None == << >>

Some(x) == << x >>

VARIABLES
    \* ---- supervisor task of each mapping (mapper.rs:217-276)
    rx,          \* mpsc channel(1) from the mapper to the supervisor
    public,      \* Mapper.public: Option<String>
    failed,      \* failed: isize
    supPc,       \* position of the supervisor task
    addr,        \* the address being handled (Option)
    wi,          \* i: start index of the walk
    wj,          \* j: enumerate() index inside watchers[i..]
    pm,          \* Option<PortMap>
    closeRx,     \* unread broadcast messages of the supervisor's subscriber
    aborted,     \* Client::close has aborted the mapper's tasks
    closer,      \* position of Closer::close
    now,         \* OffsetDateTime::now_utc().unix_timestamp()
    \* ---- history (not read by any guard)
    prev,        \* before this update: address equal to last_public, cursor, failing notifier
    calls,       \* notifier calls made for the current update
    removeCalls, \* number of remove_port calls per mapping
    shutLog,     \* shutdown steps taken by each supervisor, in order
    \* ---- UDP worker task of mapping UdpM (client/udp.rs:64-128)
    udpPc,       \* "select", or "send" while suspended in callback.send
    udpReq,      \* req: Option<TransactionId>
    udpI,        \* i: index of the current STUN server
    udpFirst,    \* first_request
    udpOut,      \* the address handed to callback.send (Option)
    udpNextTx,   \* the next fresh transaction id
    \* ---- history of the UDP worker
    udpSeq,      \* flips on every handled datagram
    udpGot,      \* transaction id of the datagram handled last (-1: unparsable)
    udpSent,     \* transaction id recorded last (0: none yet)
    udpGotAddr,  \* XOR-MAPPED-ADDRESS of the datagram handled last (Option)
    udpErrLog,   \* "no response from stun server" errors logged: tick, id, server
    udpProbes,   \* server index send_request was given at each tick
    udpEmitted,  \* transaction ids whose reply produced an address for callback.send
    \* ---- TCP worker tasks of mapping TcpM (client/tcp.rs:150-269)
    taPc,        \* position of Task A (keepalive and coordinator)
    deadline,    \* deadline.is_some()
    mappedAddr,  \* mapped_addr: Option<MappedAddress>
    resetQ,      \* messages buffered in the reset mpsc channel(1)
    stunSig,     \* stun watch channel holds a version stun_rx has not seen
    addrVal,     \* value held by the addr watch channel
    addrSig,     \* addr watch channel holds a version addr_rx has not seen
    tbPc,        \* position of Task B (STUN prober)
    tbI,         \* Task B's i: index of the current STUN server
    natAddr,     \* the address the NAT currently maps the local port to
    \* ---- history of the TCP worker
    sessPub,     \* addresses sent to the supervisor in the current session
    sessFirst,   \* first candidate observed in the current session (Option)
    churn,       \* candidate whose observation tore down the last session
    natKept,     \* the NAT has reported churn's address ever since
    sentPrev,    \* the address sent to the supervisor before sentCur
    sentCur,     \* the address sent to the supervisor last
    headOut,     \* HEAD requests written since the session began or a byte was read
    gotData,     \* a byte was read since the session began or the last HEAD was written
    endCause,    \* why the last session or dial ended ("none" during a session)
    tdLog,       \* steps taken since the last session or dial ended, in order
    lastCand,    \* the value given to addr_tx.send_replace last (Option)
    abandoned,   \* the last cancel signal was taken while map_address was running
    \* ---- history of the shutdown
    removeRes,   \* result of each supervisor's remove_port call ("none" before)
    renewRes,    \* result of the renew_port call made for the current address
    \* ---- history of the notifier calls
    delivered,   \* per notifier: the address of its last new_address call that returned Ok
    trigs,       \* stun_tx.send_replace calls while the probe in flight ran, not yet consumed
    starts,      \* map_address calls started since the last stun_tx.send_replace
    coalesced,   \* the value of trigs that the last stun_rx.changed() consumed
    probeOld,    \* the probe in flight was started before the current session
    candOld,     \* the value in the addr channel is of a probe started before the current session
    chanIn,      \* the addresses the UDP worker's callback.send calls have put in the channel
    chanOut,     \* the addresses the supervisor of UdpM has taken with rx.recv()
    \* ---- a caller of the Upnp interface and the gateway (upnp.rs)
    lease,       \* the caller's Option<PortMap>
    upPc,        \* "idle", or "renew" while suspended in gateway.add_port
    gwMaps,      \* port mappings the gateway holds
    gwLog,       \* gateway requests issued by the last Upnp call, with their results
    upOp,        \* the Upnp method called last
    upRes,       \* result of the last Upnp call
    upSeq,       \* flips on every Upnp call
    released,    \* a remove_port on the current lease has succeeded
    \* ---- run() at startup (mapper.rs:154-279)
    cfgMap,      \* cfg.map in iteration order: scheme and metadata list of each mapping
    cfgUpnp,     \* cfg.upnp: Option<bool>
    runPc,       \* position of run()
    runK,        \* index in cfgMap of the mapping being set up
    upnp,        \* upnp.is_some()
    gwSearch,    \* result of search_gateway ("none" while not searched)
    runErr,      \* what made run() return Err ("none" otherwise)
    started,     \* per mapping: add_port requested, lease, mapper built, task spawned
    \* ---- Watcher::validate applied to one metadata entry (watcher/*.rs)
    vIn,         \* the watcher kind and the metadata (Option)
    vRes,        \* what validate returned ("none" before the call)
    \* ---- dns::split_domain_name applied to one domain (watcher/mod.rs:56-68)
    sIn,         \* the domain (Option)
    sOut         \* Some(what split_domain_name returned), None before the call

supVars == << rx, public, failed, supPc, addr, wi, wj, pm, closeRx, aborted,
              closer, now, prev, calls, removeCalls, shutLog >>

udpVars == << udpPc, udpReq, udpI, udpFirst, udpOut, udpNextTx, udpSeq, udpGot, udpSent,
              udpGotAddr, udpErrLog, udpProbes, udpEmitted >>

tcpHist == << headOut, gotData, endCause, tdLog, lastCand, abandoned >>

tcpVars == << taPc, deadline, mappedAddr, resetQ, stunSig, addrVal, addrSig, tbPc,
              tbI, natAddr, sessPub, sessFirst, churn, natKept, sentPrev, sentCur,
              tcpHist >>

mapperVars == << udpVars, tcpVars >>

upnpVars == << lease, upPc, gwMaps, gwLog, upOp, upRes, upSeq, released >>

runVars == << cfgMap, cfgUpnp, runPc, runK, upnp, gwSearch, runErr, started >>

pureVars == << vIn, vRes, sIn, sOut >>

probeObs == << trigs, starts, coalesced, probeOld, candOld >>

chanObs == << chanIn, chanOut >>

obsVars == << delivered, probeObs, chanObs >>

extVars == << removeRes, renewRes, upnpVars, runVars, pureVars, obsVars >>

vars == << supVars, udpVars, tcpVars, removeRes, renewRes, upnpVars, runVars, pureVars, obsVars >>

(***************************************************************************)
(* Pure functions.                                                         *)
(***************************************************************************)

\* XorMappedAddress::to_string(): "{ip}:{port}" for an IPv4 address.
AddrToString(a) == << a.ip, ":", a.port >>

ChangedAlways(old, a) == TRUE

\* Mapper::changed -- the returned flag (self.public is set by the caller
\* of this operator, see HandleAddr).
Changed(old, a) ==
    IF old # None /\ old[1] = AddrToString(a) THEN FALSE ELSE TRUE

PublicKeepsFirst(old, a) == IF old = None THEN Some(AddrToString(a)) ELSE old

\* Mapper::changed -- self.public after the call: Some(addr.to_string()).
PublicAfter(old, a) == Some(AddrToString(a))

WalkIndexRelative(i, j) == j

\* Absolute index of the watcher visited at enumerate() index j of
\* watchers[i..].
WalkIndex(i, j) == i + j

StartIndexZero(ch, f) == 0

\* First index of the walk.
StartIndex(ch, f) == IF ch THEN 0 ELSE f

StopsWalkNever(ok) == FALSE

\* `break` after a failed new_address call.
StopsWalk(ok) == ~ok

NextJStuck(j) == j

\* enumerate() advances by one.
NextJ(j) == j + 1

ClosedPcLoops == "select"

\* `break` of the close branch: the task's future completes.
ClosedPc == "done"

AfterRemoveChecked(ok) == IF ok THEN "done" ELSE "select"

\* `let _ = upnp.remove_port(pm).await;` -- the result is discarded and
\* the close branch goes on to mapper.close() and break.
AfterRemove(ok) == ClosedPc

SetFailedShared(f, m, v) == [k \in DOMAIN f |-> v]

\* Assignment to `failed`, a local of mapping m's supervisor task
\* (`let mut failed: isize = -1;` inside the spawned async block).
SetFailed(f, m, v) == [f EXCEPT ![m] = v]

JoinReadyAny(pcs) == \E m \in DOMAIN pcs : pcs[m] = "done"

\* join_all(self.tasks) completes when every task has completed; tasks
\* holds the supervisors run() spawned, one per entry of cfg.map.
JoinReady(pcs) == \A m \in DOMAIN pcs : pcs[m] \in {"done", "absent"}

\* The receivers of the shutdown channel: `close.subscribe()` of each
\* spawned supervisor that has not finished.  The receiver that
\* broadcast::channel(1) returned is dropped at once (`let (close, _)`).
Receivers(pcs) == {m \in DOMAIN pcs : pcs[m] \notin {"done", "absent"}}

RenewIsNoopInclusive(p, t) == p.timestamp = 0 \/ t - p.timestamp <= MAPPING_TIMEOUT

\* renew_port's early return.
RenewIsNoop(p, t) == p.timestamp = 0 \/ t - p.timestamp < MAPPING_TIMEOUT

\* Index of the notifier that returned an error in a call log, -1 if none.
FailedIn(log) ==
    IF \E k \in 1..Len(log) : log[k].res = "err"
    THEN log[CHOOSE k \in 1..Len(log) : log[k].res = "err"].idx
    ELSE -1

Pending(idx) == [idx |-> idx, res |-> "pending"]

SetLast(log, r) == [log EXCEPT ![Len(log)].res = r]

(***************************************************************************)
(* Initial state: run() has returned Ok(Closer), every supervisor has been *)
(* spawned and waits in its select!.                                       *)
(***************************************************************************)

InitPortMap(m, t) ==
    IF m \in LeaseHolders
    THEN Some([external_port |-> 5000, timeout |-> t, timestamp |-> StartTime])
    ELSE None

InitSupervisors(S) ==
    /\ rx = [m \in Mappings |-> << >>]
    /\ public = [m \in Mappings |-> None]
    /\ failed = [m \in Mappings |-> -1]
    /\ supPc = [m \in Mappings |-> IF m \in S THEN "select" ELSE "absent"]
    /\ addr = [m \in Mappings |-> None]
    /\ wi = [m \in Mappings |-> 0]
    /\ wj = [m \in Mappings |-> 0]
    /\ \E t \in {MAPPING_DURATION, 0} :
           pm = [m \in Mappings |-> IF m \in S THEN InitPortMap(m, t) ELSE None]
    /\ closeRx = [m \in Mappings |-> 0]
    /\ aborted = [m \in Mappings |-> FALSE]
    /\ closer = "idle"
    /\ now = StartTime
    /\ prev = [m \in Mappings |-> [same |-> FALSE, failed |-> -1, fail |-> -1]]
    /\ calls = [m \in Mappings |-> << >>]
    /\ removeCalls = [m \in Mappings |-> 0]
    /\ shutLog = [m \in Mappings |-> << >>]
    /\ removeRes = [m \in Mappings |-> "none"]
    /\ renewRes = [m \in Mappings |-> "none"]
    /\ delivered = [m \in Mappings |-> [i \in 0..(NumWatchers - 1) |-> None]]
    /\ chanIn = << >>
    /\ chanOut = << >>

\* Both mappings are configured.
InitSup == InitSupervisors(Mappings)

(***************************************************************************)
(* Supervisor task.                                                        *)
(***************************************************************************)

ChannelFullAtTwo(q) == Len(q) >= 2

\* `let (tx, mut rx) = channel(1)`: a send waits while one address is
\* buffered.
ChannelFull(q) == Len(q) >= 1

\* callback.send(addr) of a mapper worker, seen from the supervisor: one
\* address enters the one-slot channel.
MapperEmit(m, a) ==
    /\ ~aborted[m]
    /\ supPc[m] # "done"
    /\ ~ChannelFull(rx[m])
    /\ rx' = [rx EXCEPT ![m] = Append(@, a)]
    /\ UNCHANGED << public, failed, supPc, addr, wi, wj, pm, closeRx, aborted,
                    closer, now, prev, calls, removeCalls, shutLog >>
    /\ UNCHANGED mapperVars
    /\ UNCHANGED extVars

\* mapper.rs:227-265 up to the first notifier call: change check, log line
\* (its upnp.external_ip() result is only printed), choice of the start
\* index, reset of the cursor, first new_address call.
HandleAddr(m, a) ==
    LET ch == Changed(public[m], a)
        i  == StartIndex(ch, failed[m])
    IN  /\ public' = [public EXCEPT ![m] = PublicAfter(public[m], a)]
        /\ IF (ch \/ failed[m] >= 0) /\ i < NumWatchers
           THEN /\ failed' = SetFailed(failed, m, -1)
                /\ supPc' = [supPc EXCEPT ![m] = "publish"]
                /\ addr' = [addr EXCEPT ![m] = Some(a)]
                /\ wi' = [wi EXCEPT ![m] = i]
                /\ wj' = [wj EXCEPT ![m] = 0]
                /\ calls' = [calls EXCEPT ![m] = << Pending(i) >>]
           ELSE /\ failed' = IF ch \/ failed[m] >= 0
                             THEN SetFailed(failed, m, -1) ELSE failed
                /\ supPc' = [supPc EXCEPT ![m] = "select"]
                /\ addr' = [addr EXCEPT ![m] = None]
                /\ wi' = [wi EXCEPT ![m] = 0]
                /\ wj' = [wj EXCEPT ![m] = 0]
                /\ calls' = [calls EXCEPT ![m] = << >>]

\* select! branch `Some(addr) = rx.recv()`.  With a lease whose renewal is
\* due, the task suspends in gateway.add_port (supPc = "renew"); otherwise
\* renew_port returns at once and the address is handled in the same poll.
Recv(m) ==
    /\ supPc[m] = "select"
    /\ Len(rx[m]) > 0
    /\ LET a == Head(rx[m]) IN
       /\ rx' = [rx EXCEPT ![m] = Tail(@)]
       /\ prev' = [prev EXCEPT ![m] = [same |-> (public[m] = Some(AddrToString(a))),
                                       failed |-> failed[m],
                                       fail |-> FailedIn(calls[m])]]
       /\ IF pm[m] # None /\ ~RenewIsNoop(pm[m][1], now)
          THEN /\ supPc' = [supPc EXCEPT ![m] = "renew"]
               /\ addr' = [addr EXCEPT ![m] = Some(a)]
               /\ calls' = [calls EXCEPT ![m] = << >>]
               /\ UNCHANGED << public, failed, wi, wj >>
          ELSE HandleAddr(m, a)
    /\ UNCHANGED << pm, closeRx, aborted, closer, now, removeCalls, shutLog >>
    /\ UNCHANGED mapperVars
    /\ renewRes' = [renewRes EXCEPT ![m] =
           IF pm[m] = None THEN "none"
           ELSE IF RenewIsNoop(pm[m][1], now) THEN "noop" ELSE "pending"]
    /\ UNCHANGED << removeRes, upnpVars, runVars, pureVars >>

SupRecv(m) == Recv(m) /\ UNCHANGED obsVars

SupRecvLogged(m) ==
    /\ Recv(m)
    /\ chanOut' = Append(chanOut, Head(rx[m]))
    /\ UNCHANGED << delivered, probeObs, chanIn >>

SupRenewReturnSkips(m, ok) ==
    /\ supPc[m] = "renew"
    /\ pm' = IF ok THEN [pm EXCEPT ![m] = Some([@[1] EXCEPT !.timestamp = now])] ELSE pm
    /\ IF ok
       THEN HandleAddr(m, addr[m][1])
       ELSE /\ supPc' = [supPc EXCEPT ![m] = "select"]
            /\ addr' = [addr EXCEPT ![m] = None]
            /\ UNCHANGED << public, failed, wi, wj, calls >>
    /\ UNCHANGED << rx, closeRx, aborted, closer, now, prev, removeCalls, shutLog >>
    /\ UNCHANGED mapperVars
    /\ renewRes' = [renewRes EXCEPT ![m] = IF ok THEN "ok" ELSE "err"]
    /\ UNCHANGED << removeRes, upnpVars, runVars, pureVars, obsVars >>

\* gateway.add_port of renew_port returns; an error is logged and the
\* address is handled all the same.
SupRenewReturn(m, ok) ==
    /\ supPc[m] = "renew"
    /\ pm' = IF ok THEN [pm EXCEPT ![m] = Some([@[1] EXCEPT !.timestamp = now])] ELSE pm
    /\ HandleAddr(m, addr[m][1])
    /\ UNCHANGED << rx, closeRx, aborted, closer, now, prev, removeCalls, shutLog >>
    /\ UNCHANGED mapperVars
    /\ renewRes' = [renewRes EXCEPT ![m] = IF ok THEN "ok" ELSE "err"]
    /\ UNCHANGED << removeRes, upnpVars, runVars, pureVars, obsVars >>

\* watcher.new_address(&addr, md) returns.  The history records the watcher
\* that is called (watchers[i..][j] is watchers[i + j]); the cursor is set as
\* the code computes it.
PublishReturn(m, ok) ==
    /\ supPc[m] = "publish"
    /\ failed' = IF ~ok THEN SetFailed(failed, m, WalkIndex(wi[m], wj[m])) ELSE failed
    /\ IF ~StopsWalk(ok) /\ wi[m] + NextJ(wj[m]) < NumWatchers
       THEN /\ wj' = [wj EXCEPT ![m] = NextJ(@)]
            /\ calls' = [calls EXCEPT ![m] =
                   Append(SetLast(@, IF ok THEN "ok" ELSE "err"),
                          Pending(wi[m] + NextJ(wj[m])))]
            /\ UNCHANGED << supPc, addr, wi >>
       ELSE /\ calls' = [calls EXCEPT ![m] = SetLast(@, IF ok THEN "ok" ELSE "err")]
            /\ supPc' = [supPc EXCEPT ![m] = "select"]
            /\ addr' = [addr EXCEPT ![m] = None]
            /\ wi' = [wi EXCEPT ![m] = 0]
            /\ wj' = [wj EXCEPT ![m] = 0]
    /\ UNCHANGED << rx, public, pm, closeRx, aborted, closer, now, prev,
                    removeCalls, shutLog >>
    /\ UNCHANGED mapperVars
    /\ UNCHANGED << removeRes, renewRes, upnpVars, runVars, pureVars >>

SupPublishReturn(m, ok) == PublishReturn(m, ok) /\ UNCHANGED obsVars

\* The same return, with the address a successful call carried kept in the
\* history of its notifier.
SupPublishReturnLogged(m, ok) ==
    /\ PublishReturn(m, ok)
    /\ delivered' = IF ok
                    THEN [delivered EXCEPT ![m][WalkIndex(wi[m], wj[m])] =
                             Some(AddrToString(addr[m][1]))]
                    ELSE delivered
    /\ UNCHANGED << probeObs, chanObs >>

\* select! branch `_ = close.recv()`: with a lease the task suspends in
\* gateway.remove_port; without one it closes the mapper and breaks.
SupClose(m) ==
    /\ supPc[m] = "select"
    /\ closeRx[m] > 0
    /\ closeRx' = [closeRx EXCEPT ![m] = 0]
    /\ IF pm[m] # None
       THEN /\ supPc' = [supPc EXCEPT ![m] = "remove"]
            /\ removeCalls' = [removeCalls EXCEPT ![m] = @ + 1]
            /\ shutLog' = [shutLog EXCEPT ![m] = Append(@, "remove")]
            /\ UNCHANGED aborted
       ELSE /\ supPc' = [supPc EXCEPT ![m] = ClosedPc]
            /\ aborted' = [aborted EXCEPT ![m] = TRUE]
            /\ shutLog' = [shutLog EXCEPT ![m] = @ \o << "abort", "exit" >>]
            /\ UNCHANGED removeCalls
    /\ UNCHANGED << rx, public, failed, addr, wi, wj, pm, closer, now, prev, calls >>
    /\ UNCHANGED mapperVars
    /\ UNCHANGED extVars

SupRemoveReturnKeepsPort(m, ok) ==
    /\ supPc[m] = "remove"
    /\ pm' = IF ok
             THEN [pm EXCEPT ![m] = Some([@[1] EXCEPT !.timestamp = 0])]
             ELSE pm
    /\ aborted' = [aborted EXCEPT ![m] = TRUE]
    /\ supPc' = [supPc EXCEPT ![m] = AfterRemove(ok)]
    /\ shutLog' = [shutLog EXCEPT ![m] = @ \o << "abort", "exit" >>]
    /\ UNCHANGED << rx, public, failed, addr, wi, wj, closeRx, closer, now, prev,
                    calls, removeCalls >>
    /\ UNCHANGED mapperVars
    /\ removeRes' = [removeRes EXCEPT ![m] = IF ok THEN "ok" ELSE "err"]
    /\ UNCHANGED << renewRes, upnpVars, runVars, pureVars, obsVars >>

\* gateway.remove_port returns (Upnp::remove_port zeroes the lease on
\* success only); then mapper.close() and break.
SupRemoveReturn(m, ok) ==
    /\ supPc[m] = "remove"
    /\ pm' = IF ok
             THEN [pm EXCEPT ![m] = Some([@[1] EXCEPT !.external_port = 0, !.timestamp = 0])]
             ELSE pm
    /\ aborted' = [aborted EXCEPT ![m] = TRUE]
    /\ supPc' = [supPc EXCEPT ![m] = AfterRemove(ok)]
    /\ shutLog' = [shutLog EXCEPT ![m] = @ \o << "abort", "exit" >>]
    /\ UNCHANGED << rx, public, failed, addr, wi, wj, closeRx, closer, now, prev,
                    calls, removeCalls >>
    /\ UNCHANGED mapperVars
    /\ removeRes' = [removeRes EXCEPT ![m] = IF ok THEN "ok" ELSE "err"]
    /\ UNCHANGED << renewRes, upnpVars, runVars, pureVars, obsVars >>

\* Closer::close, first statement: self.close.send(()).unwrap().  The
\* broadcast send fails (and unwrap panics) when no receiver is subscribed.
CloserSend ==
    /\ closer = "idle"
    /\ IF Receivers(supPc) # {}
       THEN /\ closer' = "joining"
            /\ closeRx' = [m \in Mappings |-> IF m \in Receivers(supPc) THEN 1 ELSE closeRx[m]]
       ELSE /\ closer' = "panicked"
            /\ UNCHANGED closeRx
    /\ UNCHANGED << rx, public, failed, supPc, addr, wi, wj, pm, aborted, now,
                    prev, calls, removeCalls, shutLog >>
    /\ UNCHANGED mapperVars
    /\ UNCHANGED extVars

\* Closer::close, second statement: join_all(self.tasks).await completes.
CloserJoin ==
    /\ closer = "joining"
    /\ JoinReady(supPc)
    /\ closer' = "returned"
    /\ UNCHANGED << rx, public, failed, supPc, addr, wi, wj, pm, closeRx, aborted,
                    now, prev, calls, removeCalls, shutLog >>
    /\ UNCHANGED mapperVars
    /\ UNCHANGED extVars

\* The wall clock advances.
Tick ==
    /\ now < StartTime + MaxTicks * TickStep
    /\ now' = now + TickStep
    /\ UNCHANGED << rx, public, failed, supPc, addr, wi, wj, pm, closeRx, aborted,
                    closer, prev, calls, removeCalls, shutLog >>
    /\ UNCHANGED mapperVars
    /\ UNCHANGED extVars

(***************************************************************************)
(* UDP worker (client/udp.rs).                                             *)
(***************************************************************************)

InitUdp ==
    /\ udpPc = "select"
    /\ udpReq = None
    /\ udpI = 0
    /\ udpFirst = TRUE
    /\ udpOut = None
    /\ udpNextTx = 1
    /\ udpSeq = 0
    /\ udpGot = -1
    /\ udpSent = 0
    /\ udpGotAddr = None
    /\ udpErrLog = << >>
    /\ udpProbes = << >>
    /\ udpEmitted = << >>

\* Datagrams the socket may receive: bytes that do not parse as a STUN
\* message, or a STUN message with any transaction id, with or without an
\* XOR-MAPPED-ADDRESS attribute.
Datagrams ==
    { [parse |-> FALSE, tid |-> -1, xor |-> None] } \cup
    { [parse |-> TRUE, tid |-> t, xor |-> x] :
        t \in 0..MaxTx, x \in {None} \cup {Some(a) : a \in Addrs} }

MatchesAny(t, r) == TRUE

\* `msg.transaction_id != r` is false.
Matches(t, r) == t = r

ClearedOnEmitOnly(req, xor) == IF xor = None THEN req ELSE None

\* `req = None;` as soon as the transaction id matches, before the
\* XOR-MAPPED-ADDRESS is looked for.
Cleared(req, xor) == None

AfterSendErrCleared(req) == None

\* The `Err(e) => error!(..)` arm of `match send_request(..)`: req is not
\* assigned.
AfterSendErr(req) == req

NoResponseAfterRotation(req, i, tick) ==
    IF req = None THEN << >>
    ELSE << [tick |-> tick, tid |-> req[1], server |-> (i + 1) % NumServers] >>

\* `if let Some(r) = req { error!(transaction_id = r, stun = stun_addr, ..) }`
\* at the head of the tick branch: stun_addr is still the server of the
\* previous tick.
NoResponse(req, i, tick) ==
    IF req = None THEN << >>
    ELSE << [tick |-> tick, tid |-> req[1], server |-> i] >>

UdpTickRotatesOnTimeout(ok) ==
    /\ ~aborted[UdpM]
    /\ udpPc = "select"
    /\ udpNextTx <= MaxTx
    /\ udpFirst' = FALSE
    /\ udpI' = IF udpFirst \/ udpReq = None THEN udpI ELSE (udpI + 1) % NumServers
    /\ udpNextTx' = udpNextTx + 1
    /\ IF ok
       THEN /\ udpReq' = Some(udpNextTx)
            /\ udpSent' = udpNextTx
       ELSE /\ udpReq' = AfterSendErr(udpReq)
            /\ UNCHANGED udpSent
    /\ udpErrLog' = udpErrLog \o NoResponse(udpReq, udpI, Len(udpProbes) + 1)
    /\ udpProbes' = Append(udpProbes, udpI')
    /\ UNCHANGED << udpPc, udpOut, udpSeq, udpGot, udpGotAddr, udpEmitted >>
    /\ UNCHANGED << supVars, tcpVars >>
    /\ UNCHANGED extVars

\* select! branch `_ = interval.tick()`; send_request returns ok or fails
\* after having drawn a fresh transaction id.
UdpTick(ok) ==
    /\ ~aborted[UdpM]
    /\ udpPc = "select"
    /\ udpNextTx <= MaxTx
    /\ udpFirst' = FALSE
    /\ udpI' = IF udpFirst THEN udpI ELSE (udpI + 1) % NumServers
    /\ udpNextTx' = udpNextTx + 1
    /\ IF ok
       THEN /\ udpReq' = Some(udpNextTx)
            /\ udpSent' = udpNextTx
       ELSE /\ udpReq' = AfterSendErr(udpReq)
            /\ UNCHANGED udpSent
    /\ udpErrLog' = udpErrLog \o NoResponse(udpReq, udpI, Len(udpProbes) + 1)
    /\ udpProbes' = Append(udpProbes, udpI')
    /\ UNCHANGED << udpPc, udpOut, udpSeq, udpGot, udpGotAddr, udpEmitted >>
    /\ UNCHANGED << supVars, tcpVars >>
    /\ UNCHANGED extVars

\* select! branch `Ok((len, _)) = sock.recv_from(&mut buf)`.
UdpRecv(d) ==
    /\ ~aborted[UdpM]
    /\ udpPc = "select"
    /\ udpSeq' = 1 - udpSeq
    /\ udpGot' = d.tid
    /\ udpGotAddr' = d.xor
    /\ IF udpReq = None \/ ~d.parse
       THEN UNCHANGED << udpReq, udpPc, udpOut, udpEmitted >>
       ELSE IF ~Matches(d.tid, udpReq[1])
       THEN UNCHANGED << udpReq, udpPc, udpOut, udpEmitted >>
       ELSE /\ udpReq' = Cleared(udpReq, d.xor)
            /\ IF d.xor = None
               THEN UNCHANGED << udpPc, udpOut, udpEmitted >>
               ELSE /\ udpOut' = d.xor
                    /\ udpPc' = "send"
                    /\ udpEmitted' = Append(udpEmitted, d.tid)
    /\ UNCHANGED << udpI, udpFirst, udpNextTx, udpSent, udpErrLog, udpProbes >>
    /\ UNCHANGED << supVars, tcpVars >>
    /\ UNCHANGED extVars

\* callback.send(addr).await completes once the channel has room.
CallbackSend ==
    /\ ~aborted[UdpM]
    /\ udpPc = "send"
    /\ ~ChannelFull(rx[UdpM])
    /\ rx' = [rx EXCEPT ![UdpM] = Append(@, udpOut[1])]
    /\ udpPc' = "select"
    /\ udpOut' = None
    /\ UNCHANGED << udpReq, udpI, udpFirst, udpNextTx, udpSeq, udpGot, udpSent,
                    udpGotAddr, udpErrLog, udpProbes, udpEmitted >>
    /\ UNCHANGED << public, failed, supPc, addr, wi, wj, pm, closeRx, aborted,
                    closer, now, prev, calls, removeCalls, shutLog >>
    /\ UNCHANGED tcpVars
    /\ UNCHANGED << removeRes, renewRes, upnpVars, runVars, pureVars >>

UdpSend == CallbackSend /\ UNCHANGED obsVars

UdpSendLogged ==
    /\ CallbackSend
    /\ chanIn' = Append(chanIn, udpOut[1])
    /\ UNCHANGED << delivered, probeObs, chanOut >>

(***************************************************************************)
(* TCP worker (client/tcp.rs).                                             *)
(***************************************************************************)

InitTcp ==
    /\ taPc = "dial"
    /\ deadline = FALSE
    /\ mappedAddr = None
    /\ resetQ = 0
    /\ stunSig = FALSE
    /\ addrVal = DefaultAddr
    /\ addrSig = FALSE
    /\ tbPc = "wait"
    /\ tbI = 0
    /\ natAddr = [ip |-> "9.9.9.9", port |-> 6000]
    /\ sessPub = << >>
    /\ sessFirst = None
    /\ churn = None
    /\ natKept = FALSE
    /\ sentPrev = None
    /\ sentCur = None
    /\ headOut = 0
    /\ gotData = FALSE
    /\ endCause = "none"
    /\ tdLog = << >>
    /\ lastCand = None
    /\ abandoned = FALSE
    /\ trigs = 0
    /\ starts = 0
    /\ coalesced = 0
    /\ probeOld = FALSE
    /\ candOld = FALSE

AddrEqIpOnly(a, b) == a.ip = b.ip

\* PartialEq for MappedAddress.
AddrEq(a, b) == a.ip = b.ip /\ a.port = b.port

ShouldPublishChanged(mapped, new) == mapped = None \/ ~AddrEq(mapped[1], new)

\* The `else` of `if let Some(ref addr) = mapped_addr`: only the first
\* mapped address of a session is sent to the callback.
ShouldPublish(mapped, new) == mapped = None

SendNeverBlocks(q) == FALSE

\* reset_tx.send(()).await on the mpsc channel of capacity 1 suspends while
\* a message is buffered.
SendBlocks(q) == q >= 1

\* `i = (i + 1) % stun_addrs.len()` in the arm of the completed probe.
NextServer(i) == (i + 1) % NumServers

AfterCancelAdvances(i) == NextServer(i)

\* The arm of reset_rx.recv() leaves i alone.
AfterCancel(i) == i

MarkKept(sig) == sig

\* stun_rx.mark_unchanged(): a version not yet seen counts as seen.
MarkUnchanged(sig) == FALSE

RetryPcNoSleep == "dial"

\* `sleep(Duration::from_secs(RETRY_INTERVAL)).await` precedes the next
\* iteration of the outer loop.
RetryPc == "sleep"

DeadlineKept(dl) == dl

\* `deadline = None` after a read of n > 0 bytes (FALSE: no deadline).
AfterData(dl) == FALSE

TickAlwaysEnabled(dl) == TRUE

\* Precondition `if deadline.is_none()` of the keepalive tick branch.
TickEnabled(dl) == ~dl

\* End of the inner loop: drop(stream), then reset_tx.send(()).await, which
\* suspends while the one-slot channel is full.
Teardown(cause) ==
    /\ deadline' = FALSE
    /\ mappedAddr' = None
    /\ sessPub' = << >>
    /\ sessFirst' = None
    /\ headOut' = 0
    /\ gotData' = FALSE
    /\ endCause' = cause
    /\ IF ~SendBlocks(resetQ)
       THEN /\ resetQ' = 1
            /\ taPc' = RetryPc
            /\ tdLog' = << "drop", "cancel" >>
       ELSE /\ resetQ' = resetQ
            /\ taPc' = "reset"
            /\ tdLog' = << "drop" >>
    /\ UNCHANGED << lastCand, abandoned >>

MarkSeenNever(sig) == sig

\* stun_rx.changed() returns: the receiver has seen the current version, so
\* the triggers sent up to now are consumed together.
MarkSeen(sig) == FALSE

\* new_connection(local_addr, &remote_addr) returns.
Dial(ok) ==
    /\ ~aborted[TcpM]
    /\ taPc = "dial"
    /\ IF ok
       THEN /\ taPc' = "session"
            /\ deadline' = FALSE
            /\ mappedAddr' = None
            /\ addrSig' = FALSE
            /\ sessPub' = << >>
            /\ sessFirst' = None
            /\ headOut' = 0
            /\ gotData' = FALSE
            /\ endCause' = "none"
       ELSE /\ taPc' = RetryPc
            /\ endCause' = "dial"
            /\ UNCHANGED << deadline, mappedAddr, addrSig, sessPub, sessFirst,
                            headOut, gotData >>
    /\ tdLog' = << >>
    /\ UNCHANGED << lastCand, abandoned >>
    /\ UNCHANGED << resetQ, stunSig, addrVal, tbPc, tbI, natAddr, churn, natKept,
                    sentPrev, sentCur >>
    /\ UNCHANGED << supVars, udpVars >>
    /\ UNCHANGED << removeRes, renewRes, upnpVars, runVars, pureVars >>

TaDial(ok) == Dial(ok) /\ UNCHANGED obsVars

\* TaDial with the age of Task B's probe and of the candidate recorded: a
\* session begins, so whatever Task B holds or has written is of an earlier one.
TaDialLogged(ok) ==
    /\ Dial(ok)
    /\ probeOld' = IF ok THEN tbPc = "probe" ELSE probeOld
    /\ candOld' = IF ok THEN lastCand # None ELSE candOld
    /\ UNCHANGED << delivered, trigs, starts, coalesced, chanObs >>

\* sleep(RETRY_INTERVAL) elapses.
TaSleepDone ==
    /\ ~aborted[TcpM]
    /\ taPc = "sleep"
    /\ taPc' = "dial"
    /\ tdLog' = Append(tdLog, "sleep")
    /\ UNCHANGED << deadline, mappedAddr, resetQ, stunSig, addrVal, addrSig, tbPc,
                    tbI, natAddr, sessPub, sessFirst, churn, natKept, sentPrev, sentCur >>
    /\ UNCHANGED << headOut, gotData, endCause, lastCand, abandoned >>
    /\ UNCHANGED << supVars, udpVars >>
    /\ UNCHANGED extVars

\* select! branch `res = reader.read(&mut buf)`.
TaRead(r) ==
    /\ ~aborted[TcpM]
    /\ taPc = "session"
    /\ IF r = "data"
       THEN /\ deadline' = AfterData(deadline)
            /\ headOut' = 0
            /\ gotData' = TRUE
            /\ UNCHANGED << taPc, mappedAddr, resetQ, sessPub, sessFirst >>
            /\ UNCHANGED << endCause, tdLog, lastCand, abandoned >>
       ELSE Teardown(r)
    /\ UNCHANGED << stunSig, addrVal, addrSig, tbPc, tbI, natAddr, churn, natKept,
                    sentPrev, sentCur >>
    /\ UNCHANGED << supVars, udpVars >>
    /\ UNCHANGED extVars

\* select! branch `_ = interval.tick(), if deadline.is_none()`.
TaKeepalive(ok) ==
    /\ ~aborted[TcpM]
    /\ taPc = "session"
    /\ TickEnabled(deadline)
    /\ IF ok
       THEN /\ deadline' = TRUE
            /\ headOut' = headOut + 1
            /\ gotData' = FALSE
            /\ UNCHANGED << taPc, mappedAddr, resetQ, sessPub, sessFirst >>
            /\ UNCHANGED << endCause, tdLog, lastCand, abandoned >>
       ELSE Teardown("write")
    /\ UNCHANGED << stunSig, addrVal, addrSig, tbPc, tbI, natAddr, churn, natKept,
                    sentPrev, sentCur >>
    /\ UNCHANGED << supVars, udpVars >>
    /\ UNCHANGED extVars

\* select! branch `_ = sleep_until(deadline), if deadline.is_some()`.
TaDeadline ==
    /\ ~aborted[TcpM]
    /\ taPc = "session"
    /\ deadline
    /\ Teardown("deadline")
    /\ UNCHANGED << stunSig, addrVal, addrSig, tbPc, tbI, natAddr, churn, natKept,
                    sentPrev, sentCur >>
    /\ UNCHANGED << supVars, udpVars >>
    /\ UNCHANGED extVars

\* select! branch `_ = stun.tick()`: stun_tx.send_replace(()).
StunTick ==
    /\ ~aborted[TcpM]
    /\ taPc = "session"
    /\ stunSig' = TRUE
    /\ UNCHANGED << taPc, deadline, mappedAddr, resetQ, addrVal, addrSig, tbPc, tbI,
                    natAddr, sessPub, sessFirst, churn, natKept, sentPrev, sentCur >>
    /\ UNCHANGED tcpHist
    /\ UNCHANGED << supVars, udpVars >>
    /\ UNCHANGED << removeRes, renewRes, upnpVars, runVars, pureVars >>

TaStunTick == StunTick /\ UNCHANGED obsVars

TaStunTickLogged ==
    /\ StunTick
    /\ trigs' = IF tbPc = "probe" /\ trigs < 2 THEN trigs + 1 ELSE trigs
    /\ starts' = 0
    /\ UNCHANGED << delivered, coalesced, probeOld, candOld, chanObs >>

\* select! branch `_ = addr_rx.changed()`.
TaAddrChanged ==
    /\ ~aborted[TcpM]
    /\ taPc = "session"
    /\ addrSig
    /\ addrSig' = FALSE
    /\ LET new == addrVal IN
       IF ShouldPublish(mappedAddr, new)
       THEN /\ mappedAddr' = Some(new)
            /\ taPc' = "send"
            /\ sessPub' = Append(sessPub, new)
            /\ sessFirst' = IF sessFirst = None THEN Some(new) ELSE sessFirst
            /\ sentPrev' = sentCur
            /\ sentCur' = Some(new)
            /\ UNCHANGED << deadline, resetQ, churn, natKept >>
            /\ UNCHANGED tcpHist
       ELSE IF AddrEq(new, mappedAddr[1])
       THEN UNCHANGED << taPc, deadline, mappedAddr, resetQ, sessPub, sessFirst,
                         churn, natKept, sentPrev, sentCur, tcpHist >>
       ELSE /\ Teardown("churn")
            /\ churn' = Some(new)
            /\ natKept' = (natAddr = new)
            /\ UNCHANGED << sentPrev, sentCur >>
    /\ UNCHANGED << stunSig, addrVal, tbPc, tbI, natAddr >>
    /\ UNCHANGED << supVars, udpVars >>
    /\ UNCHANGED extVars

\* callback.send(new_addr.into()).await completes once the channel has room.
TaSendDone ==
    /\ ~aborted[TcpM]
    /\ taPc = "send"
    /\ ~ChannelFull(rx[TcpM])
    /\ rx' = [rx EXCEPT ![TcpM] = Append(@, mappedAddr[1])]
    /\ taPc' = "session"
    /\ UNCHANGED << deadline, mappedAddr, resetQ, stunSig, addrVal, addrSig, tbPc,
                    tbI, natAddr, sessPub, sessFirst, churn, natKept, sentPrev, sentCur >>
    /\ UNCHANGED tcpHist
    /\ UNCHANGED << public, failed, supPc, addr, wi, wj, pm, closeRx, aborted,
                    closer, now, prev, calls, removeCalls, shutLog >>
    /\ UNCHANGED udpVars
    /\ UNCHANGED extVars

\* reset_tx.send(()).await completes once the channel has room.
TaResetDone ==
    /\ ~aborted[TcpM]
    /\ taPc = "reset"
    /\ ~SendBlocks(resetQ)
    /\ resetQ' = 1
    /\ taPc' = RetryPc
    /\ tdLog' = Append(tdLog, "cancel")
    /\ UNCHANGED << deadline, mappedAddr, stunSig, addrVal, addrSig, tbPc, tbI,
                    natAddr, sessPub, sessFirst, churn, natKept, sentPrev, sentCur >>
    /\ UNCHANGED << headOut, gotData, endCause, lastCand, abandoned >>
    /\ UNCHANGED << supVars, udpVars >>
    /\ UNCHANGED extVars

\* Task B: stun_rx.changed() completes and map_address is started.  A poll
\* of the select! that finds a cancel signal pending ends in the reset arm:
\* map_address cannot finish in the poll that starts it.
ProbeStart ==
    /\ ~aborted[TcpM]
    /\ tbPc = "wait"
    /\ resetQ = 0
    /\ stunSig
    /\ stunSig' = MarkSeen(stunSig)
    /\ tbPc' = "probe"
    /\ abandoned' = FALSE
    /\ UNCHANGED << taPc, deadline, mappedAddr, resetQ, addrVal, addrSig, tbI,
                    natAddr, sessPub, sessFirst, churn, natKept, sentPrev, sentCur >>
    /\ UNCHANGED << headOut, gotData, endCause, tdLog, lastCand >>
    /\ UNCHANGED << supVars, udpVars >>
    /\ UNCHANGED << removeRes, renewRes, upnpVars, runVars, pureVars >>

TbStart == ProbeStart /\ UNCHANGED obsVars

TbStartLogged ==
    /\ ProbeStart
    /\ coalesced' = trigs
    /\ trigs' = 0
    /\ starts' = IF starts < 2 THEN starts + 1 ELSE starts
    /\ probeOld' = FALSE
    /\ UNCHANGED << delivered, candOld, chanObs >>

\* Task B: map_address returns; on success addr_tx.send_replace, in both
\* cases the select! arm advances the server index.
ProbeDone(ok) ==
    /\ ~aborted[TcpM]
    /\ tbPc = "probe"
    /\ IF ok
       THEN /\ addrVal' = natAddr
            /\ addrSig' = TRUE
            /\ lastCand' = Some(natAddr)
       ELSE UNCHANGED << addrVal, addrSig, lastCand >>
    /\ tbI' = NextServer(tbI)
    /\ tbPc' = "wait"
    /\ UNCHANGED << taPc, deadline, mappedAddr, resetQ, stunSig, natAddr, sessPub,
                    sessFirst, churn, natKept, sentPrev, sentCur >>
    /\ UNCHANGED << headOut, gotData, endCause, tdLog, abandoned >>
    /\ UNCHANGED << supVars, udpVars >>
    /\ UNCHANGED << removeRes, renewRes, upnpVars, runVars, pureVars >>

TbProbeDone(ok) == ProbeDone(ok) /\ UNCHANGED obsVars

TbProbeDoneLogged(ok) ==
    /\ ProbeDone(ok)
    /\ candOld' = IF ok THEN probeOld ELSE candOld
    /\ probeOld' = FALSE
    /\ UNCHANGED << delivered, trigs, starts, coalesced, chanObs >>

\* Task B: select! branch `_ = reset_rx.recv()`; the probe future is
\* dropped and stun_rx.mark_unchanged() discards a pending trigger.
CancelTaken ==
    /\ ~aborted[TcpM]
    /\ resetQ > 0
    /\ resetQ' = 0
    /\ stunSig' = MarkUnchanged(stunSig)
    /\ tbI' = AfterCancel(tbI)
    /\ tbPc' = "wait"
    /\ abandoned' = (tbPc = "probe")
    /\ UNCHANGED << taPc, deadline, mappedAddr, addrVal, addrSig, natAddr,
                    sessPub, sessFirst, churn, natKept, sentPrev, sentCur >>
    /\ UNCHANGED << headOut, gotData, endCause, tdLog, lastCand >>
    /\ UNCHANGED << supVars, udpVars >>
    /\ UNCHANGED << removeRes, renewRes, upnpVars, runVars, pureVars >>

TbReset == CancelTaken /\ UNCHANGED obsVars

TbResetLogged ==
    /\ CancelTaken
    /\ trigs' = 0
    /\ probeOld' = FALSE
    /\ UNCHANGED << delivered, starts, coalesced, candOld, chanObs >>

\* The NAT assigns another public address to the local port.
NatChange(a) ==
    /\ a # natAddr
    /\ natAddr' = a
    /\ natKept' = FALSE
    /\ UNCHANGED << taPc, deadline, mappedAddr, resetQ, stunSig, addrVal, addrSig,
                    tbPc, tbI, sessPub, sessFirst, churn, sentPrev, sentCur >>
    /\ UNCHANGED tcpHist
    /\ UNCHANGED << supVars, udpVars >>
    /\ UNCHANGED extVars

(***************************************************************************)
(* The Upnp interface and the gateway (upnp.rs), driven by one caller that *)
(* owns one Option<PortMap>.                                               *)
(***************************************************************************)

\* Upnp.local_ip: local IPv4 address of the machine.
LocalIp == "192.168.1.2"

\* Another host of the local network that maps ports on the same gateway.
OtherHost == "192.168.1.3"

\* External ports the gateway hands out.
GwPorts == {5000, 5001}

\* PortMappingProtocol
Protocols == {"TCP", "UDP"}

\* Forward addresses add_port is called with.
ForwardAddrs == { [ip |-> "0.0.0.0", port |-> 5000] }

\* Results of gateway.add_any_port: Ok(port) or an AddAnyPortError.
AddAnyResults == {"ok", "OnlyPermanentLeasesSupported", "other"}

\* Forward to 0.0.0.0 is the same as the local ip of this machine.
ForwardAddr(a) == IF a.ip = "0.0.0.0" THEN [a EXCEPT !.ip = LocalIp] ELSE a

RetriesOnAnyError(e) == e # "ok"

\* `if let Err(ref e) = external_port { if matches!(e, OnlyPermanentLeasesSupported)`
Retries(e) == e = "OnlyPermanentLeasesSupported"

\* Upnp::add_port as a function of the gateway's answers: `first` to the
\* add_any_port with lease MAPPING_DURATION, `retry` to the one with lease 0,
\* either granting port p; t is the time at which the PortMap is built.
\* Yields the requests issued (with their results), the call's result and the
\* PortMap returned on success.
AddPort(proto, fwd, first, retry, p, t) ==
    LET faddr == ForwardAddr(fwd)
        r1 == [op |-> "add_any_port", protocol |-> proto, forward_addr |-> faddr,
               lease |-> MAPPING_DURATION, res |-> first]
        r2 == [op |-> "add_any_port", protocol |-> proto, forward_addr |-> faddr,
               lease |-> 0, res |-> retry]
        retried == first # "ok" /\ Retries(first)
        timeout == IF retried THEN 0 ELSE MAPPING_DURATION
        external_port == IF retried THEN retry ELSE first
    IN  [log |-> IF retried THEN << r1, r2 >> ELSE << r1 >>,
         res |-> IF external_port = "ok" THEN "ok" ELSE "err",
         pm  |-> [protocol |-> proto, forward_addr |-> faddr, external_port |-> p,
                  timeout |-> timeout, timestamp |-> t]]

\* The gateway has no mapping of external port p for the protocol.
Free(maps, proto, p) == ~\E g \in maps : g.protocol = proto /\ g.port = p

\* The gateway's table after a mapping of (protocol, port) is added or
\* refreshed.
GwAdd(maps, proto, p, faddr, l) ==
    { g \in maps : ~(g.protocol = proto /\ g.port = p) } \cup
    { [protocol |-> proto, port |-> p, forward_addr |-> faddr, lease |-> l] }

\* The gateway's table after the mapping of (protocol, port) is deleted.
GwRemove(maps, proto, p) == { g \in maps : ~(g.protocol = proto /\ g.port = p) }

ReleasedKeepsPort(p) == [p EXCEPT !.timestamp = 0]

\* remove_port after the gateway call has succeeded:
\* pm.external_port = 0; pm.timestamp = 0.
Released(p) == [p EXCEPT !.external_port = 0, !.timestamp = 0]

\* No Upnp call has been made and the gateway's table is empty.
InitUpnp ==
    /\ lease = None
    /\ upPc = "idle"
    /\ gwMaps = {}
    /\ gwLog = << >>
    /\ upOp = "none"
    /\ upRes = "none"
    /\ upSeq = 0
    /\ released = FALSE

\* upnp.add_port(protocol, forward_addr).await
UpnpAddPort(proto, fwd, first, retry, p) ==
    /\ upPc = "idle"
    /\ lease = None
    /\ LET r == AddPort(proto, fwd, first, retry, p, now) IN
       /\ gwLog' = r.log
       /\ upRes' = r.res
       /\ IF r.res = "ok"
          THEN /\ Free(gwMaps, proto, p)
               /\ lease' = Some(r.pm)
               /\ gwMaps' = GwAdd(gwMaps, proto, p, r.pm.forward_addr, r.pm.timeout)
          ELSE UNCHANGED << lease, gwMaps >>
    /\ upOp' = "add_port"
    /\ upSeq' = 1 - upSeq
    /\ UNCHANGED << upPc, released >>
    /\ UNCHANGED << supVars, mapperVars, removeRes, renewRes, runVars, pureVars, obsVars >>

\* upnp.renew_port(pm).await up to the gateway call: the early return, or
\* the task suspends in gateway.add_port.
UpnpRenewCall ==
    /\ upPc = "idle"
    /\ lease # None
    /\ IF RenewIsNoop(lease[1], now)
       THEN /\ gwLog' = << >>
            /\ upRes' = "ok"
            /\ UNCHANGED upPc
       ELSE /\ gwLog' = << [op |-> "add_port", protocol |-> lease[1].protocol,
                            port |-> lease[1].external_port,
                            forward_addr |-> lease[1].forward_addr,
                            lease |-> lease[1].timeout, res |-> "pending"] >>
            /\ upRes' = "pending"
            /\ upPc' = "renew"
    /\ upOp' = "renew_port"
    /\ upSeq' = 1 - upSeq
    /\ UNCHANGED << lease, gwMaps, released >>
    /\ UNCHANGED << supVars, mapperVars, removeRes, renewRes, runVars, pureVars, obsVars >>

\* gateway.add_port of renew_port returns: `.await?`, then
\* pm.timestamp = now_utc().  The gateway refuses a port that another host
\* has mapped.
UpnpRenewReturn(ok) ==
    /\ upPc = "renew"
    /\ ok => ~\E g \in gwMaps : /\ g.protocol = lease[1].protocol
                                /\ g.port = lease[1].external_port
                                /\ g.forward_addr.ip = OtherHost
    /\ gwLog' = SetLast(gwLog, IF ok THEN "ok" ELSE "err")
    /\ upRes' = IF ok THEN "ok" ELSE "err"
    /\ upPc' = "idle"
    /\ IF ok
       THEN /\ lease' = Some([lease[1] EXCEPT !.timestamp = now])
            /\ gwMaps' = GwAdd(gwMaps, lease[1].protocol, lease[1].external_port,
                               lease[1].forward_addr, lease[1].timeout)
       ELSE UNCHANGED << lease, gwMaps >>
    /\ UNCHANGED << upOp, upSeq, released >>
    /\ UNCHANGED << supVars, mapperVars, removeRes, renewRes, runVars, pureVars, obsVars >>

\* upnp.remove_port(pm).await; the gateway answers NoSuchPortMapping (an
\* error) when it holds no mapping of that protocol and port.
UpnpRemovePort(ok) ==
    /\ upPc = "idle"
    /\ lease # None
    /\ ok => ~Free(gwMaps, lease[1].protocol, lease[1].external_port)
    /\ gwLog' = << [op |-> "remove_port", protocol |-> lease[1].protocol,
                    port |-> lease[1].external_port,
                    res |-> IF ok THEN "ok" ELSE "err"] >>
    /\ upRes' = IF ok THEN "ok" ELSE "err"
    /\ IF ok
       THEN /\ gwMaps' = GwRemove(gwMaps, lease[1].protocol, lease[1].external_port)
            /\ lease' = Some(Released(lease[1]))
            /\ released' = TRUE
       ELSE UNCHANGED << lease, gwMaps, released >>
    /\ upOp' = "remove_port"
    /\ upSeq' = 1 - upSeq
    /\ UNCHANGED upPc
    /\ UNCHANGED << supVars, mapperVars, removeRes, renewRes, runVars, pureVars, obsVars >>

\* Another host maps a free external port on the gateway.
GwOtherAdd(proto, p) ==
    /\ Free(gwMaps, proto, p)
    /\ gwMaps' = GwAdd(gwMaps, proto, p, [ip |-> OtherHost, port |-> p], 0)
    /\ UNCHANGED << lease, upPc, gwLog, upOp, upRes, upSeq, released >>
    /\ UNCHANGED << supVars, mapperVars, removeRes, renewRes, runVars, pureVars, obsVars >>

\* The other host deletes one of its mappings.
GwOtherRemove(proto, p) ==
    /\ \E g \in gwMaps : g.protocol = proto /\ g.port = p /\ g.forward_addr.ip = OtherHost
    /\ gwMaps' = GwRemove(gwMaps, proto, p)
    /\ UNCHANGED << lease, upPc, gwLog, upOp, upRes, upSeq, released >>
    /\ UNCHANGED << supVars, mapperVars, removeRes, renewRes, runVars, pureVars, obsVars >>

(***************************************************************************)
(* run() at startup (mapper.rs:154-279).                                   *)
(***************************************************************************)

\* Schemes of the cfg.map keys the model configures.
Schemes == {"tcp", "udp+upnp"}

\* A metadata entry names a configured notifier whose validate accepts it
\* ("ok"), names a notifier that is not configured ("unknown"), or is
\* rejected by its notifier's validate ("invalid").
MdKinds == {"ok", "unknown", "invalid"}

\* Largest number of mappings in cfg.map.
MaxMappings == 2

\* Largest number of metadata entries of one mapping.
MaxMd == 2

SeqsUpTo(S, n) == UNION { [1..k -> S] : k \in 0..n }

\* One entry of cfg.map: HashMap<String, Vec<Metadata>>.
MapSpecs == [scheme : Schemes, addr : {[ip |-> "0.0.0.0", port |-> 5000]},
             md : SeqsUpTo(MdKinds, MaxMd)]

\* Every scheme run() accepts, and one it does not; the ip:port of the key.
AllSchemes == {"tcp", "tcp+upnp", "upnp+tcp", "udp", "udp+upnp", "upnp+udp", "http"}

KeyAddrs == {[ip |-> "0.0.0.0", port |-> 5000], [ip |-> "192.168.1.2", port |-> 6000]}

SchemeSpecs == [scheme : AllSchemes, addr : KeyAddrs, md : {<< >>, << "invalid" >>}]

\* The patterns of the arms of `match url.scheme()`.
TcpSchemes == {"tcp", "tcp+upnp", "upnp+tcp"}

UdpSchemes == {"udp", "udp+upnp", "upnp+udp"}

\* PortMap::local_addr: format!("0.0.0.0:{}", self.external_port)
PmLocalAddr(map) == [ip |-> "0.0.0.0", port |-> map.external_port]

UpnpEnabledTcpOnly(scheme) == scheme \in {"tcp+upnp", "upnp+tcp"}

\* upnp_enabled(url)
UpnpEnabled(scheme) == scheme \in {"tcp+upnp", "upnp+tcp", "udp+upnp", "upnp+udp"}

\* let global_upnp = !matches!(cfg.upnp, Some(false));
GlobalUpnp(u) == u # Some(FALSE)

\* global_upnp || cfg.map.keys().any(upnp_enabled)
NeedsGateway(u, map) ==
    GlobalUpnp(u) \/ \E k \in DOMAIN map : UpnpEnabled(map[k].scheme)

WantsPortBySchemeOnly(scheme, g) == scheme \notin {"tcp", "udp"}

\* url.scheme() != "tcp" || global_upnp (and the same with "udp")
WantsPort(scheme, g) == scheme \notin {"tcp", "udp"} \/ g

\* Protocol of the match arm the scheme selects.
ProtocolOf(scheme) == IF scheme \in {"tcp", "tcp+upnp", "upnp+tcp"} THEN "TCP" ELSE "UDP"

FirstBadSkipsUnknown(md) ==
    IF \E i \in 1..Len(md) : md[i] = "invalid"
    THEN CHOOSE i \in 1..Len(md) : md[i] = "invalid" /\ \A h \in 1..(i - 1) : md[h] # "invalid"
    ELSE 0

\* The metadata loop: index of the first entry that makes run() return an
\* error, 0 if every entry is pushed to `watchers`.
FirstBad(md) ==
    IF \E i \in 1..Len(md) : md[i] # "ok"
    THEN CHOOSE i \in 1..Len(md) : md[i] # "ok" /\ \A h \in 1..(i - 1) : md[h] = "ok"
    ELSE 0

\* local_addr is the address handed to Mapper::new_tcp / new_udp, and
\* external_port the one of the PortMap kept in `pm` (0 without a PortMap).
NotStarted == [port |-> FALSE, granted |-> FALSE, built |-> FALSE, spawned |-> FALSE,
               local_addr |-> None, external_port |-> 0]

\* run(cfg) is called with any configuration within the bounds.
InitRun ==
    /\ cfgMap \in SeqsUpTo(MapSpecs, MaxMappings)
    /\ cfgUpnp \in {None, Some(TRUE), Some(FALSE)}
    /\ runPc = "begin"
    /\ runK = 1
    /\ upnp = FALSE
    /\ gwSearch = "none"
    /\ runErr = "none"
    /\ started = [k \in 1..Len(cfgMap) |-> NotStarted]

\* run(cfg) has returned Ok(Closer) for the configuration of Mappings.
RunReturnedFor(S) ==
    LET keys == SelectSeq(<< UdpM, TcpM >>, LAMBDA m : m \in S)
        entry == [m \in Mappings |->
                     IF m = UdpM
                     THEN [scheme |-> "udp+upnp", addr |-> [ip |-> "0.0.0.0", port |-> 5000],
                           md |-> [i \in 1..NumWatchers |-> "ok"]]
                     ELSE [scheme |-> "tcp", addr |-> [ip |-> "0.0.0.0", port |-> 6000],
                           md |-> [i \in 1..NumWatchers |-> "ok"]]]
        done == [m \in Mappings |->
                     IF m = UdpM
                     THEN [port |-> TRUE, granted |-> TRUE, built |-> TRUE, spawned |-> TRUE,
                           local_addr |-> Some([ip |-> "0.0.0.0", port |-> 5000]),
                           external_port |-> 5000]
                     ELSE [port |-> FALSE, granted |-> FALSE, built |-> TRUE, spawned |-> TRUE,
                           local_addr |-> Some([ip |-> "0.0.0.0", port |-> 6000]),
                           external_port |-> 0]]
    IN  /\ cfgMap = [k \in 1..Len(keys) |-> entry[keys[k]]]
        /\ cfgUpnp = Some(FALSE)
        /\ runPc = "ok"
        /\ runK = Len(cfgMap) + 1
        /\ upnp = (UdpM \in S)
        /\ gwSearch = IF UdpM \in S THEN "ok" ELSE "none"
        /\ runErr = "none"
        /\ started = [k \in 1..Len(keys) |-> done[keys[k]]]

\* Both mappings were configured.
RunReturned == RunReturnedFor(Mappings)

\* The notifier instances are built (Http::new and AliDns::new may fail),
\* then the gateway is searched if UPnP is needed.
RunBegin(ok) ==
    /\ runPc = "begin"
    /\ IF ~ok
       THEN /\ runPc' = "err"
            /\ runErr' = "watcher"
       ELSE /\ runPc' = IF NeedsGateway(cfgUpnp, cfgMap) THEN "search" ELSE "loop"
            /\ UNCHANGED runErr
    /\ UNCHANGED << cfgMap, cfgUpnp, runK, upnp, gwSearch, started >>
    /\ UNCHANGED << supVars, mapperVars, removeRes, renewRes, upnpVars, pureVars, obsVars >>

\* Upnp::new().await? returns: the gateway answered ("ok"), no response
\* within the timeout ("timeout"), or local_ip() or the search failed
\* otherwise ("other").
RunSearchReturn(r) ==
    /\ runPc = "search"
    /\ gwSearch' = r
    /\ IF r = "ok"
       THEN /\ upnp' = TRUE
            /\ runPc' = "loop"
            /\ UNCHANGED runErr
       ELSE /\ runPc' = "err"
            /\ runErr' = IF r = "timeout" THEN "gateway" ELSE "upnp"
            /\ UNCHANGED upnp
    /\ UNCHANGED << cfgMap, cfgUpnp, runK, started >>
    /\ UNCHANGED << supVars, mapperVars, removeRes, renewRes, upnpVars, pureVars, obsVars >>

\* One iteration of `for (key, value) in cfg.map` up to its first await:
\* the metadata is validated, then the scheme selects the arm; there
\* add_port is called if the mapping uses UPnP (upnp.as_ref().unwrap()
\* panics without a gateway object), else the mapper is built with the
\* ip:port of the key.  After the last mapping run() returns Ok(Closer).
RunMapping ==
    /\ runPc = "loop"
    /\ IF runK > Len(cfgMap)
       THEN /\ runPc' = "ok"
            /\ UNCHANGED << runErr, started >>
       ELSE LET c == cfgMap[runK] IN
            IF FirstBad(c.md) # 0
            THEN /\ runPc' = "err"
                 /\ runErr' = IF c.md[FirstBad(c.md)] = "unknown"
                              THEN "no watcher" ELSE "metadata"
                 /\ UNCHANGED started
            ELSE IF c.scheme \notin TcpSchemes \cup UdpSchemes
            THEN /\ runPc' = "err"
                 /\ runErr' = "scheme"
                 /\ UNCHANGED started
            ELSE IF WantsPort(c.scheme, GlobalUpnp(cfgUpnp))
            THEN /\ runPc' = IF upnp THEN "add_port" ELSE "panicked"
                 /\ started' = IF upnp THEN [started EXCEPT ![runK].port = TRUE] ELSE started
                 /\ UNCHANGED runErr
            ELSE /\ runPc' = "build"
                 /\ started' = [started EXCEPT ![runK].local_addr = Some(c.addr)]
                 /\ UNCHANGED runErr
    /\ UNCHANGED << cfgMap, cfgUpnp, runK, upnp, gwSearch >>
    /\ UNCHANGED << supVars, mapperVars, removeRes, renewRes, upnpVars, pureVars, obsVars >>

\* upnp.add_port(..).await? returns, the gateway having chosen external
\* port p if it granted one: `local_addr = map.local_addr()`.
RunAddPortReturn(first, retry, p) ==
    /\ runPc = "add_port"
    /\ LET r == AddPort(ProtocolOf(cfgMap[runK].scheme), cfgMap[runK].addr,
                        first, retry, p, now)
       IN IF r.res = "ok"
          THEN /\ started' = [started EXCEPT ![runK].granted = TRUE,
                                             ![runK].external_port = r.pm.external_port,
                                             ![runK].local_addr = Some(PmLocalAddr(r.pm))]
               /\ runPc' = "build"
               /\ UNCHANGED runErr
          ELSE /\ runPc' = "err"
               /\ runErr' = "add_port"
               /\ UNCHANGED started
    /\ UNCHANGED << cfgMap, cfgUpnp, runK, upnp, gwSearch >>
    /\ UNCHANGED << supVars, mapperVars, removeRes, renewRes, upnpVars, pureVars, obsVars >>

\* Mapper::new_tcp / Mapper::new_udp(..).await? returns; on success the
\* supervisor task is spawned and the loop goes on to the next mapping.
RunBuildReturn(ok) ==
    /\ runPc = "build"
    /\ IF ok
       THEN /\ started' = [started EXCEPT ![runK].built = TRUE, ![runK].spawned = TRUE]
            /\ runK' = runK + 1
            /\ runPc' = "loop"
            /\ UNCHANGED runErr
       ELSE /\ runPc' = "err"
            /\ runErr' = "mapper"
            /\ UNCHANGED << started, runK >>
    /\ UNCHANGED << cfgMap, cfgUpnp, upnp, gwSearch >>
    /\ UNCHANGED << supVars, mapperVars, removeRes, renewRes, upnpVars, pureVars, obsVars >>

(***************************************************************************)
(* Watcher metadata validation (watcher/mod.rs, cf.rs, dnspod.rs,          *)
(* alidns.rs, http.rs, script.rs).  A string is a sequence of characters;  *)
(* a metadata value is the sequence of its space-separated tokens.         *)
(***************************************************************************)

\* Characters a domain is made of in the model.
Chars == {"a", "b", "."}

\* Longest domain split_domain_name is applied to.
MaxDomainLen == 6

\* Every string of at most n characters.
StringsUpTo(n) == UNION { [1..k -> Chars] : k \in 0..n }

\* str::split("."): the labels between the dots; the empty string has one
\* empty label.
RECURSIVE Split(_)
Split(s) ==
    IF s = << >> THEN << << >> >>
    ELSE LET r == Split(Tail(s)) IN
         IF Head(s) = "." THEN << << >> >> \o r
         ELSE << << Head(s) >> \o r[1] >> \o Tail(r)

\* [&str]::join(".")
RECURSIVE Join(_)
Join(labels) ==
    IF labels = << >> THEN << >>
    ELSE IF Len(labels) = 1 THEN labels[1]
    ELSE labels[1] \o << "." >> \o Join(Tail(labels))

KeepsTrailingEmpty(l) == l

\* `if let Some(&"") = labels.last() { labels.remove(labels.len() - 1); }`
DropTrailingEmpty(l) == IF l[Len(l)] = << >> THEN SubSeq(l, 1, Len(l) - 1) ELSE l

\* dns::split_domain_name: Some((SLD, subdomain)) or None.
SplitDomainName(domain) ==
    LET labels == DropTrailingEmpty(Split(domain))
        len == Len(labels)
    IN IF len < 2 \/ labels[len] = << >> \/ labels[len - 1] = << >>
       THEN None
       ELSE Some(<< Join(SubSeq(labels, len - 1, len)), Join(SubSeq(labels, 1, len - 2)) >>)

\* Kinds of watcher (Watcher::kind).
WatcherKinds == {"dnspod", "alidns", "cf", "http", "script"}

\* Record types a metadata entry may name, in the letter case it was
\* written in.
RecordTypes == {"A", "SVCB", "svcb", "HTTPS", "Https", "URI", "uri", "SRV", "NS"}

\* str::to_lowercase on RecordTypes.
ToLowercase(t) ==
    CASE t = "A" -> "a"
      [] t \in {"SVCB", "svcb"} -> "svcb"
      [] t \in {"HTTPS", "Https"} -> "https"
      [] t \in {"URI", "uri"} -> "uri"
      [] t = "SRV" -> "srv"
      [] t = "NS" -> "ns"

\* str::to_uppercase on RecordTypes.
ToUppercase(t) ==
    CASE t = "A" -> "A"
      [] t \in {"SVCB", "svcb"} -> "SVCB"
      [] t \in {"HTTPS", "Https"} -> "HTTPS"
      [] t \in {"URI", "uri"} -> "URI"
      [] t = "SRV" -> "SRV"
      [] t = "NS" -> "NS"

\* Record types Cloudflare::validate accepts.
TYPES == {"A", "AAAA", "CNAME", "HTTPS", "MX", "SRV", "SVCB", "TXT", "URI"}

\* format_value with the example address 1.1.1.1:1111, token by token.
FormatToken(t) ==
    CASE t = "{ip}" -> "1.1.1.1"
      [] t = "{port}" -> "1111"
      [] OTHER -> t

FormatValue(value) == [k \in 1..Len(value) |-> FormatToken(value[k])]

\* str::parse::<u16>() and str::parse::<u64>() succeed.
ParsesInt(t) == t \in {"0", "5", "1111"}

\* SRV::try_from succeeds: four tokens, the first three are numbers.
SrvParses(value) ==
    /\ Len(value) = 4
    /\ \A k \in 1..3 : ParsesInt(value[k])

\* SVCB::try_from succeeds: the trimmed value contains a space.
SvcbParses(value) == Len(value) >= 2

\* Metadata values in the model.
Values ==
    { << >>, << "{ip}" >>, << "www", "{port}" >>,
      << "0", "5", "{port}", "www" >>, << "0", "5", "{ip}", "www" >> }

\* Domains in the metadata of the model: a.b, a.b. with a trailing dot, and
\* the single label b.
Domains == { << "a", ".", "b" >>, << "a", ".", "b", "." >>, << "b" >> }

\* The config::Metadata entries validate is applied to.
MetadataSet ==
    [ domain : {None} \cup {Some(d) : d \in Domains},
      kind : {None} \cup {Some(t) : t \in RecordTypes},
      priority : {None, Some(10)},
      rid : {None, Some("5"), Some("www")},
      value : Values ]

PriorityTypesWithUri == {"svcb", "https", "uri"}

\* `record_type == "svcb" || record_type == "https"` in dns::validate.
PriorityTypes == {"svcb", "https"}

\* dns::validate
DnsValidate(md) ==
    IF md.domain = None THEN "missing field domain"
    ELSE IF md.kind = None THEN "missing field type"
    ELSE IF ToLowercase(md.kind[1]) \in PriorityTypes /\ md.priority = None
    THEN "missing field priority"
    ELSE IF SplitDomainName(md.domain[1]) = None THEN "InvalidDomainCharacter"
    ELSE "ok"

\* Cloudflare::validate
CfValidate(md) ==
    IF DnsValidate(md) # "ok" THEN DnsValidate(md)
    ELSE LET record_type == ToUppercase(md.kind[1]) IN
         IF record_type \notin TYPES THEN "unsupported record type"
         ELSE IF record_type = "URI" /\ md.priority = None THEN "missing field priority"
         ELSE IF record_type = "SRV" /\ ~SrvParses(FormatValue(md.value))
         THEN "invalid value format"
         ELSE IF record_type \in {"HTTPS", "SVCB"} /\ ~SvcbParses(FormatValue(md.value))
         THEN "invalid value format"
         ELSE "ok"

\* DnsPod::validate
DnsPodValidate(md) ==
    IF DnsValidate(md) # "ok" THEN DnsValidate(md)
    ELSE IF md.rid # None /\ ~ParsesInt(md.rid[1]) THEN "ParseIntError"
    ELSE "ok"

\* AliDns::validate
AliDnsValidate(md) == DnsValidate(md)

\* Watcher::validate of a watcher of the given kind.
Validate(kind, md) ==
    CASE kind = "cf" -> CfValidate(md)
      [] kind = "dnspod" -> DnsPodValidate(md)
      [] kind = "alidns" -> AliDnsValidate(md)
      [] kind \in {"http", "script"} -> "ok"

\* No validate and no split_domain_name call is being looked at.
PureIdle == vIn = None /\ vRes = "none" /\ sIn = None /\ sOut = None

InitValidate ==
    /\ vIn \in { Some([kind |-> k, md |-> md]) : k \in WatcherKinds, md \in MetadataSet }
    /\ vRes = "none"
    /\ sIn = None
    /\ sOut = None

\* watcher.validate(&md) is called and returns.
ValidateCall ==
    /\ vIn # None
    /\ vRes = "none"
    /\ vRes' = Validate(vIn[1].kind, vIn[1].md)
    /\ UNCHANGED << vIn, sIn, sOut >>
    /\ UNCHANGED << supVars, mapperVars, removeRes, renewRes, upnpVars, runVars, obsVars >>

InitSplit ==
    /\ sIn \in { Some(d) : d \in StringsUpTo(MaxDomainLen) }
    /\ sOut = None
    /\ vIn = None
    /\ vRes = "none"

\* split_domain_name(domain) is called and returns.
SplitCall ==
    /\ sIn # None
    /\ sOut = None
    /\ sOut' = Some(SplitDomainName(sIn[1]))
    /\ UNCHANGED << vIn, vRes, sIn >>
    /\ UNCHANGED << supVars, mapperVars, removeRes, renewRes, upnpVars, runVars, obsVars >>

\* add_port got the timed leases it asked for first.
TimedLeases == \A m \in LeaseHolders : pm[m] # None => pm[m][1].timeout = MAPPING_DURATION

\* add_port fell back to permanent leases.
PermanentLeases == \A m \in LeaseHolders : pm[m][1].timeout = 0

Init == InitSup /\ InitUdp /\ InitTcp /\ InitUpnp /\ RunReturned /\ TimedLeases /\ PureIdle

Next ==
    \/ \E m \in Mappings, a \in Addrs : MapperEmit(m, a)
    \/ \E m \in Mappings : SupRecv(m)
    \/ \E m \in Mappings, ok \in BOOLEAN : SupRenewReturn(m, ok)
    \/ \E m \in Mappings, ok \in BOOLEAN : SupPublishReturn(m, ok)
    \/ \E m \in Mappings : SupClose(m)
    \/ \E m \in Mappings, ok \in BOOLEAN : SupRemoveReturn(m, ok)
    \/ CloserSend
    \/ CloserJoin
    \/ Tick

Spec == Init /\ [][Next]_vars

\* The supervisors and the shutdown while no lease renewal falls due (the
\* clock stands still, so renew_port returns at once).
NextLive ==
    \/ \E m \in Mappings, a \in Addrs : MapperEmit(m, a)
    \/ \E m \in Mappings : SupRecv(m)
    \/ \E m \in Mappings, ok \in BOOLEAN : SupPublishReturn(m, ok)
    \/ \E m \in Mappings : SupClose(m)
    \/ \E m \in Mappings, ok \in BOOLEAN : SupRemoveReturn(m, ok)
    \/ CloserSend
    \/ CloserJoin

\* Calls of in-progress operations return, a ready select! branch is
\* eventually chosen (tokio picks among ready branches at random), and
\* join_all completes once every task has.
SupFairness ==
    /\ \A m \in Mappings : WF_vars(\E ok \in BOOLEAN : SupPublishReturn(m, ok))
    /\ \A m \in Mappings : WF_vars(\E ok \in BOOLEAN : SupRemoveReturn(m, ok))
    /\ \A m \in Mappings : SF_vars(SupClose(m))
    /\ WF_vars(CloserJoin)

SpecLive == Init /\ [][NextLive]_vars /\ SupFairness

\* run() has returned Ok(Closer) for a cfg.map that holds any of the
\* mappings, none included; main() then waits for a signal and calls
\* Closer::close.
InitClose ==
    /\ \E S \in SUBSET Mappings : InitSupervisors(S) /\ RunReturnedFor(S)
    /\ InitUdp /\ InitTcp /\ InitUpnp /\ TimedLeases /\ PureIdle

\* The supervisors that run() spawned.
Spawned == {m \in Mappings : supPc[m] # "absent"}

NextClose ==
    \/ \E m \in Spawned, a \in Addrs : MapperEmit(m, a)
    \/ \E m \in Spawned : SupRecv(m)
    \/ \E m \in Spawned, ok \in BOOLEAN : SupPublishReturn(m, ok)
    \/ \E m \in Spawned : SupClose(m)
    \/ \E m \in Spawned, ok \in BOOLEAN : SupRemoveReturn(m, ok)
    \/ CloserSend
    \/ CloserJoin

SpecClose == InitClose /\ [][NextClose]_vars /\ SupFairness

\* The UDP worker of UdpM with its supervisor.
NextUdp ==
    \/ \E ok \in BOOLEAN : UdpTick(ok)
    \/ \E d \in Datagrams : UdpRecv(d)
    \/ UdpSend
    \/ SupRecv(UdpM)
    \/ \E ok \in BOOLEAN : SupPublishReturn(UdpM, ok)

SpecUdp == Init /\ [][NextUdp]_vars

\* The same, with what enters and what leaves the channel recorded.
NextChan ==
    \/ \E ok \in BOOLEAN : UdpTick(ok)
    \/ \E d \in Datagrams : UdpRecv(d)
    \/ UdpSendLogged
    \/ SupRecvLogged(UdpM)
    \/ \E ok \in BOOLEAN : SupPublishReturn(UdpM, ok)

SpecChan == Init /\ [][NextChan]_vars

\* The TCP worker of TcpM with its supervisor.
NextTcp ==
    \/ \E ok \in BOOLEAN : TaDial(ok)
    \/ TaSleepDone
    \/ \E r \in {"data", "eof", "err"} : TaRead(r)
    \/ \E ok \in BOOLEAN : TaKeepalive(ok)
    \/ TaDeadline
    \/ TaStunTick
    \/ TaAddrChanged
    \/ TaSendDone
    \/ TaResetDone
    \/ TbStart
    \/ \E ok \in BOOLEAN : TbProbeDone(ok)
    \/ TbReset
    \/ \E a \in Addrs : NatChange(a)
    \/ SupRecv(TcpM)
    \/ \E ok \in BOOLEAN : SupPublishReturn(TcpM, ok)

SpecTcp == Init /\ [][NextTcp]_vars

\* The TCP worker of TcpM with its supervisor while the keepalive
\* connection stays up: a session ends only because the mapped address
\* has changed.  Task B then has taken the cancel signal of the session
\* before (no probe starts while one is pending, and a session needs two
\* candidates to end), so reset_tx.send never waits here.
NextChurn ==
    \/ \E ok \in BOOLEAN : TaDial(ok)
    \/ TaSleepDone
    \/ TaRead("data")
    \/ TaKeepalive(TRUE)
    \/ TaStunTick
    \/ TaAddrChanged
    \/ TaSendDone
    \/ TbStart
    \/ \E ok \in BOOLEAN : TbProbeDone(ok)
    \/ TbReset
    \/ \E a \in Addrs : NatChange(a)
    \/ SupRecv(TcpM)
    \/ \E ok \in BOOLEAN : SupPublishReturn(TcpM, ok)

\* sleep(RETRY_INTERVAL) elapses, and Task B is scheduled and takes a
\* pending cancel signal, which makes room in the reset channel.
ChurnFairness ==
    /\ WF_vars(TaSleepDone)
    /\ WF_vars(TaResetDone)
    /\ WF_vars(TbReset)

SpecChurn == Init /\ [][NextChurn]_vars /\ ChurnFairness

\* The two tasks of the TCP worker of TcpM and the NAT, while the
\* supervisor is busy elsewhere; sleeps elapse and Task B is scheduled.
NextKeep ==
    \/ \E ok \in BOOLEAN : TaDial(ok)
    \/ TaSleepDone
    \/ \E r \in {"data", "eof", "err"} : TaRead(r)
    \/ \E ok \in BOOLEAN : TaKeepalive(ok)
    \/ TaDeadline
    \/ TaStunTick
    \/ TaAddrChanged
    \/ TaSendDone
    \/ TaResetDone
    \/ TbStart
    \/ \E ok \in BOOLEAN : TbProbeDone(ok)
    \/ TbReset
    \/ \E a \in Addrs : NatChange(a)

SpecKeep == Init /\ [][NextKeep]_vars /\ ChurnFairness

\* The same two tasks and the NAT, with the triggers and the probes counted
\* and the session of each probe recorded.
NextProbe ==
    \/ \E ok \in BOOLEAN : TaDialLogged(ok)
    \/ TaSleepDone
    \/ \E r \in {"data", "eof", "err"} : TaRead(r)
    \/ \E ok \in BOOLEAN : TaKeepalive(ok)
    \/ TaDeadline
    \/ TaStunTickLogged
    \/ TaAddrChanged
    \/ TaSendDone
    \/ TaResetDone
    \/ TbStartLogged
    \/ \E ok \in BOOLEAN : TbProbeDoneLogged(ok)
    \/ TbResetLogged
    \/ \E a \in Addrs : NatChange(a)

SpecProbe == Init /\ [][NextProbe]_vars

\* The supervisors whose leases are permanent, their mappers and the clock.
InitPerm ==
    InitSup /\ InitUdp /\ InitTcp /\ InitUpnp /\ RunReturned /\ PermanentLeases /\ PureIdle

NextPerm ==
    \/ \E m \in LeaseHolders, a \in Addrs : MapperEmit(m, a)
    \/ \E m \in LeaseHolders : SupRecv(m)
    \/ \E m \in LeaseHolders, ok \in BOOLEAN : SupRenewReturn(m, ok)
    \/ \E m \in LeaseHolders, ok \in BOOLEAN : SupPublishReturn(m, ok)
    \/ Tick

SpecPerm == InitPerm /\ [][NextPerm]_vars

\* The supervisor that holds a lease, its mapper and the clock, with the
\* deliveries of every notifier on record.
NextDeliver ==
    \/ \E m \in LeaseHolders, a \in Addrs : MapperEmit(m, a)
    \/ \E m \in LeaseHolders : SupRecv(m)
    \/ \E m \in LeaseHolders, ok \in BOOLEAN : SupRenewReturn(m, ok)
    \/ \E m \in LeaseHolders, ok \in BOOLEAN : SupPublishReturnLogged(m, ok)
    \/ Tick

SpecDeliver == Init /\ [][NextDeliver]_vars

\* One caller of the Upnp interface, another host on the same gateway, and
\* the clock.
NextUpnp ==
    \/ \E proto \in Protocols, fwd \in ForwardAddrs, first \in AddAnyResults,
          retry \in AddAnyResults, p \in GwPorts : UpnpAddPort(proto, fwd, first, retry, p)
    \/ UpnpRenewCall
    \/ \E ok \in BOOLEAN : UpnpRenewReturn(ok)
    \/ \E ok \in BOOLEAN : UpnpRemovePort(ok)
    \/ \E proto \in Protocols, p \in GwPorts : GwOtherAdd(proto, p)
    \/ \E proto \in Protocols, p \in GwPorts : GwOtherRemove(proto, p)
    \/ Tick

SpecUpnp == Init /\ [][NextUpnp]_vars

\* run() from its call to its return.
InitStart == InitSup /\ InitUdp /\ InitTcp /\ InitUpnp /\ InitRun /\ TimedLeases /\ PureIdle

NextStart ==
    \/ \E ok \in BOOLEAN : RunBegin(ok)
    \/ \E r \in {"ok", "timeout", "other"} : RunSearchReturn(r)
    \/ RunMapping
    \/ \E first \in AddAnyResults, retry \in AddAnyResults : RunAddPortReturn(first, retry, 5000)
    \/ \E ok \in BOOLEAN : RunBuildReturn(ok)

SpecStart == InitStart /\ [][NextStart]_vars

\* run(cfg) is called with mappings of any scheme and key address.
InitScheme ==
    /\ InitSup /\ InitUdp /\ InitTcp /\ InitUpnp /\ TimedLeases /\ PureIdle
    /\ cfgMap \in SeqsUpTo(SchemeSpecs, MaxMappings)
    /\ cfgUpnp \in {None, Some(TRUE), Some(FALSE)}
    /\ runPc = "begin"
    /\ runK = 1
    /\ upnp = FALSE
    /\ gwSearch = "none"
    /\ runErr = "none"
    /\ started = [k \in 1..Len(cfgMap) |-> NotStarted]

\* run() with a gateway that grants any of its ports.
NextScheme ==
    \/ \E ok \in BOOLEAN : RunBegin(ok)
    \/ \E r \in {"ok", "timeout", "other"} : RunSearchReturn(r)
    \/ RunMapping
    \/ \E first \in AddAnyResults, retry \in AddAnyResults, p \in GwPorts :
           RunAddPortReturn(first, retry, p)
    \/ \E ok \in BOOLEAN : RunBuildReturn(ok)

SpecScheme == InitScheme /\ [][NextScheme]_vars

\* Watcher::validate applied to one metadata entry.
InitVal ==
    InitSup /\ InitUdp /\ InitTcp /\ InitUpnp /\ RunReturned /\ TimedLeases /\ InitValidate

NextVal == ValidateCall

SpecVal == InitVal /\ [][NextVal]_vars

\* dns::split_domain_name applied to one domain.
InitDns ==
    InitSup /\ InitUdp /\ InitTcp /\ InitUpnp /\ RunReturned /\ TimedLeases /\ InitSplit

NextDns == SplitCall

SpecDns == InitDns /\ [][NextDns]_vars

TypeOK ==
    /\ \A m \in Mappings : Len(rx[m]) <= 1
    /\ \A m \in Mappings : failed[m] \in -1..(NumWatchers - 1)

(***************************************************************************)
(* Properties of the supervisor.                                           *)
(***************************************************************************)

\* The supervisor has finished handling the address it received last.
Handled(m) == supPc[m] \notin {"renew", "publish"}

LastOf(log) == log[Len(log)]

\* A step in which supervisor m starts a new_address call.
CallStarted(m) ==
    /\ calls'[m] # calls[m]
    /\ calls'[m] # << >>
    /\ LastOf(calls'[m]).res = "pending"

\* C1 -- Dedup law: notifiers are invoked for a received address only if
\* its string form differs from last_public (or last_public is unset) or
\* the failure cursor is >= 0; an unchanged address with cursor -1 causes
\* no notifier call.
C1_DedupLaw ==
    \A m \in Mappings :
        /\ calls[m] # << >> => (~prev[m].same \/ prev[m].failed >= 0)
        /\ (prev[m].same /\ prev[m].failed = -1) => calls[m] = << >>

C1_Witness ==
    /\ calls["m1"] # << >> /\ prev["m1"].same /\ prev["m1"].failed >= 0
    /\ supPc["m2"] = "select" /\ prev["m2"].same /\ prev["m2"].failed = -1
    /\ calls["m2"] = << >> /\ public["m2"] # None

\* C2 -- Resume law: if notifier j failed while handling the previous
\* update, an unchanged address makes the walk visit exactly j, j+1, ...
\* (up to the end or the next failure) and a changed address makes it
\* start at 0.
C2_ResumeLaw ==
    \A m \in Mappings :
        (prev[m].fail >= 0 /\ supPc[m] # "renew") =>
            /\ calls[m] # << >>
            /\ calls[m][1].idx = IF prev[m].same THEN prev[m].fail ELSE 0
            /\ \A k \in 1..Len(calls[m]) : calls[m][k].idx = calls[m][1].idx + k - 1
            /\ Handled(m) =>
                  \/ LastOf(calls[m]).res = "err"
                  \/ LastOf(calls[m]).idx = NumWatchers - 1

C2_Witness ==
    /\ supPc["m2"] = "select"
    /\ prev["m2"].fail = 1 /\ prev["m2"].same
    /\ calls["m2"][1].idx = 1 /\ LastOf(calls["m2"]).res = "ok"
    /\ supPc["m1"] = "select"
    /\ prev["m1"].fail = 1 /\ ~prev["m1"].same
    /\ Len(calls["m1"]) = NumWatchers /\ calls["m1"][1].idx = 0

\* C3 -- the walk stops at the first failing notifier: an error at index j
\* is the last call of the update and leaves the cursor at j; a walk that
\* succeeds through the last notifier leaves the cursor at -1.
C3_StopAtFirstFailure ==
    \A m \in Mappings :
        /\ \A k \in 1..Len(calls[m]) :
              calls[m][k].res = "err" =>
                  /\ k = Len(calls[m])
                  /\ failed[m] = calls[m][k].idx
                  /\ supPc[m] # "publish"
        /\ (calls[m] # << >> /\ Handled(m) /\ LastOf(calls[m]).res = "ok") =>
              /\ failed[m] = -1
              /\ LastOf(calls[m]).idx = NumWatchers - 1

C3_Witness ==
    /\ supPc["m1"] = "select"
    /\ calls["m1"] = << [idx |-> 1, res |-> "err"] >> /\ failed["m1"] = 1
    /\ supPc["m2"] = "select"
    /\ Len(calls["m2"]) = NumWatchers /\ LastOf(calls["m2"]).res = "ok"

\* C4 -- within one mapping notifier calls are sequential and in configured
\* order: at most one call is in progress, the calls of one address have
\* increasing indices, and the next address is taken from the channel only
\* when no walk is in progress.
C4_Sequential ==
    /\ [](\A m \in Mappings :
            /\ Cardinality({k \in 1..Len(calls[m]) : calls[m][k].res = "pending"}) <= 1
            /\ \A k \in 1..Len(calls[m]) : \A l \in 1..Len(calls[m]) :
                  k < l => /\ calls[m][k].idx < calls[m][l].idx
                           /\ calls[m][k].res # "pending")
    /\ [][\A m \in Mappings :
            Len(rx'[m]) < Len(rx[m]) =>
                \A k \in 1..Len(calls[m]) : calls[m][k].res # "pending"]_vars

C4_Witness ==
    /\ supPc["m1"] = "publish" /\ Len(calls["m1"]) = NumWatchers /\ Len(rx["m1"]) = 1
    /\ supPc["m2"] = "publish" /\ Len(calls["m2"]) = NumWatchers

\* C5 as stated -- after the shutdown broadcast has been sent no notifier
\* call is started by any supervisor.
C5_NoCallAfterBroadcast ==
    [][closer # "idle" => \A m \in Mappings : ~CallStarted(m)]_vars

\* C5 as amended -- once a supervisor has taken the close branch of its
\* select! it starts no further notifier call; a walk in progress when the
\* broadcast is sent runs on, and an address waiting in the channel may
\* still be handled before the close branch is taken.
C5_NoCallAfterClose ==
    [][\A m \in Mappings : shutLog[m] # << >> => ~CallStarted(m)]_vars

C5_Witness ==
    /\ closer = "joining"
    /\ supPc["m1"] = "done" /\ Len(rx["m1"]) = 1
    /\ supPc["m2"] = "publish"

ExpectedShutdown(m) ==
    IF pm[m] # None THEN << "remove", "abort", "exit" >> ELSE << "abort", "exit" >>

IsPrefix(s, t) == Len(s) <= Len(t) /\ \A k \in 1..Len(s) : s[k] = t[k]

C7_RemoveOnce ==
    \A m \in Mappings :
        /\ removeCalls[m] <= 1
        /\ pm[m] = None => removeCalls[m] = 0
        /\ supPc[m] = "done" => removeCalls[m] = (IF pm[m] # None THEN 1 ELSE 0)
        /\ (removeCalls[m] = 1 /\ supPc[m] # "remove") =>
              (supPc[m] = "done" /\ aborted[m])

C7_Witness ==
    /\ supPc["m1"] = "done" /\ removeCalls["m1"] = 1
    /\ pm["m1"][1].external_port # 0
    /\ supPc["m2"] = "done" /\ removeCalls["m2"] = 0

(***************************************************************************)
(* Properties of the UDP worker.                                           *)
(***************************************************************************)

\* A step in which the worker handles a datagram.
UdpRecvStep == udpSeq' # udpSeq

\* A step in which the worker hands an address to callback.send.
UdpEmit == udpPc = "select" /\ udpPc' = "send"

\* C8 -- UDP correlation: an address is emitted only while handling a
\* datagram whose transaction id equals the outstanding one, which is the
\* id recorded last; a datagram with another id, or one that arrives while
\* nothing is outstanding, emits nothing and leaves the slot unchanged.
C8_UdpCorrelation ==
    [][/\ UdpEmit => /\ UdpRecvStep
                     /\ udpReq # None
                     /\ udpGot' = udpReq[1]
                     /\ udpGot' = udpSent
       /\ (UdpRecvStep /\ (udpReq = None \/ udpGot' # udpReq[1])) =>
              (~UdpEmit /\ udpReq' = udpReq /\ rx' = rx)]_vars

C8_Witness ==
    /\ Len(rx[UdpM]) = 1
    /\ udpPc = "select"
    /\ udpReq # None
    /\ udpGot >= 1 /\ udpGot # udpReq[1]
    /\ udpSent = udpReq[1]

(***************************************************************************)
(* Properties of the TCP worker.                                           *)
(***************************************************************************)

\* A step in which Task A reads a candidate from the addr watch channel.
Observe == taPc = "session" /\ addrSig /\ ~addrSig'

\* C9 -- TCP first-address rule: within one keepalive session at most one
\* address is sent to the supervisor, and it is the first candidate
\* observed in the session; a later equal candidate causes nothing, a later
\* different one tears the session down and is not sent.
C9_FirstAddressRule ==
    /\ [](/\ Len(sessPub) <= 1
          /\ sessPub # << >> => sessFirst = Some(sessPub[1])
          /\ sessFirst # None => sessPub = << sessFirst[1] >>)
    /\ [][/\ (Observe /\ sessFirst = None) =>
                 (taPc' = "send" /\ sentCur' = Some(addrVal))
          /\ (Observe /\ sessFirst # None /\ addrVal = sessFirst[1]) =>
                 (taPc' = "session" /\ sessPub' = sessPub
                  /\ sentCur' = sentCur /\ sentPrev' = sentPrev /\ rx' = rx)
          /\ (Observe /\ sessFirst # None /\ addrVal # sessFirst[1]) =>
                 (taPc' \in {"sleep", "reset"}
                  /\ sentCur' = sentCur /\ sentPrev' = sentPrev /\ rx' = rx)]_vars

C9_Witness ==
    /\ taPc = "session"
    /\ churn # None
    /\ sessPub # << >>
    /\ sentPrev # None
    /\ addrSig /\ addrVal # sessPub[1]

\* A step in which Task A observes a candidate that differs from the
\* session's canonical address.
ChurnStep == Observe /\ mappedAddr # None /\ addrVal # mappedAddr[1]

\* Everything the TCP worker has sent has been received by the supervisor.
Drained == rx[TcpM] = << >> /\ taPc # "send"

\* C10 -- TCP mapping churn: when a probe yields an address other than the
\* one the session published, the keepalive connection is closed without
\* publishing; the retry delay and a new dial follow; a later session
\* publishes its first observed address, which is the churn address while
\* the NAT keeps reporting it; and the supervisor, on receiving an address
\* that differs from the one sent before, walks the notifiers from index 0.
C10_MappingChurn ==
    /\ [][ChurnStep => (taPc' \in {"sleep", "reset"} /\ sentCur' = sentCur /\ rx' = rx)]_vars
    /\ (taPc \in {"sleep", "reset"} ~> taPc = "dial")
    /\ [](sessPub # << >> => sessFirst = Some(sessPub[1]))
    /\ []((churn # None /\ natKept /\ sessPub # << >>) =>
              (sessPub[1] = churn[1] /\ sentCur = churn
               /\ sentPrev # None /\ sentPrev # sentCur))
    /\ []((Drained /\ sentPrev # None /\ sentCur # sentPrev) =>
              (/\ ~prev[TcpM].same
               /\ calls[TcpM] # << >>
               /\ calls[TcpM][1].idx = 0))

C10_Witness ==
    /\ churn # None /\ natKept
    /\ sessPub = << churn[1] >>
    /\ Drained
    /\ supPc[TcpM] = "select"
    /\ Len(calls[TcpM]) = NumWatchers /\ calls[TcpM][1].idx = 0

(***************************************************************************)
(* Properties of the Upnp interface.                                       *)
(***************************************************************************)

\* C11 -- for a permanent lease (lease_seconds = 0) every renew_port call
\* of the supervisor is a no-op at every elapsed time: no gateway add-port
\* request is issued (the supervisor is never suspended in one) and the
\* lease keeps the timestamp add_port gave it.
C11_PermanentLeaseNoop ==
    \A m \in Mappings :
        (pm[m] # None /\ pm[m][1].timeout = 0) =>
            /\ supPc[m] # "renew"
            /\ pm[m][1].timestamp \in {StartTime, 0}

\* A step in which the caller calls a method of Upnp.
UpnpCallStep == upSeq' # upSeq

\* The caller holds a timed lease that has not been removed.
TimedLease == lease # None /\ lease[1].timeout = 3600 /\ ~released

\* C12 -- for a timed lease that has not been removed, renew_port is a
\* no-op iff now - last_renewed < 1800; otherwise it issues exactly one
\* gateway add-port request with the lease's protocol, external port,
\* forward address and duration, and sets last_renewed to the current time
\* when that request succeeds (the lease is unchanged when it fails).
C12_RenewThreshold ==
    [][/\ (UpnpCallStep /\ upOp' = "renew_port" /\ TimedLease) =>
              /\ lease' = lease
              /\ gwMaps' = gwMaps
              /\ IF now - lease[1].timestamp < 1800
                 THEN gwLog' = << >> /\ upPc' = "idle" /\ upRes' = "ok"
                 ELSE /\ upPc' = "renew"
                      /\ Len(gwLog') = 1
                      /\ gwLog'[1].op = "add_port"
                      /\ gwLog'[1].protocol = lease[1].protocol
                      /\ gwLog'[1].port = lease[1].external_port
                      /\ gwLog'[1].forward_addr = lease[1].forward_addr
                      /\ gwLog'[1].lease = 3600
       /\ (upPc = "renew" /\ upPc' = "idle" /\ TimedLease) =>
              /\ Len(gwLog') = 1
              /\ gwLog'[1].port = gwLog[1].port
              /\ IF upRes' = "ok"
                 THEN lease' = Some([lease[1] EXCEPT !.timestamp = now])
                 ELSE lease' = lease]_vars

C12_Witness ==
    /\ upOp = "renew_port" /\ upRes = "ok" /\ upPc = "idle"
    /\ Len(gwLog) = 1
    /\ TimedLease
    /\ lease[1].timestamp = now /\ now >= StartTime + 1800

\* C13 -- add_port first requests any port with lease 3600; it retries,
\* exactly once and with lease 0, iff that request failed with
\* OnlyPermanentLeasesSupported; it returns a lease iff the last request it
\* made succeeded, with lease_seconds 0 after a retry, and an error and no
\* lease otherwise.
C13_AddPortFallback ==
    upOp = "add_port" =>
        /\ Len(gwLog) \in {1, 2}
        /\ gwLog[1].op = "add_any_port" /\ gwLog[1].lease = 3600
        /\ Len(gwLog) = 2 <=> gwLog[1].res = "OnlyPermanentLeasesSupported"
        /\ Len(gwLog) = 2 => (gwLog[2].op = "add_any_port" /\ gwLog[2].lease = 0)
        /\ upRes = "ok" <=> gwLog[Len(gwLog)].res = "ok"
        /\ upRes = "ok" => (lease # None /\ lease[1].timeout = gwLog[Len(gwLog)].lease)
        /\ upRes # "ok" => (upRes = "err" /\ lease = None)

C13_Witness ==
    /\ upOp = "add_port" /\ upRes = "ok"
    /\ Len(gwLog) = 2
    /\ lease # None /\ lease[1].timeout = 0

\* C14 -- remove_port is idempotent after the first call: once a
\* remove_port has succeeded the lease has external_port 0 and timestamp 0,
\* and a further remove_port leaves the lease and the gateway's set of port
\* mappings unchanged.
C14_RemoveIdempotent ==
    [][/\ (UpnpCallStep /\ upOp' = "remove_port" /\ upRes' = "ok") =>
              (lease'[1].external_port = 0 /\ lease'[1].timestamp = 0)
       /\ (released /\ UpnpCallStep /\ upOp' = "remove_port") =>
              (lease' = lease /\ gwMaps' = gwMaps)]_vars

C14_Witness ==
    /\ released
    /\ upOp = "remove_port" /\ upRes = "err"
    /\ gwMaps # {}

\* C15 as stated -- while a supervisor that holds a lease has not handled
\* the shutdown signal the lease's external_port is non-zero, and after the
\* supervisor's remove_port call at shutdown it is 0.
C15_PortZeroAfterRemove ==
    \A m \in Mappings :
        pm[m] # None =>
            /\ shutLog[m] = << >> => pm[m][1].external_port # 0
            /\ removeRes[m] # "none" => pm[m][1].external_port = 0

\* C15 as amended -- while a supervisor that holds a lease has not handled
\* the shutdown signal the lease's external_port is non-zero; after the
\* supervisor's remove_port call the external_port is 0 if the gateway
\* deleted the mapping, and the lease is unchanged if the gateway call
\* failed.
C15_PortZeroAfterRemoved ==
    \A m \in Mappings :
        pm[m] # None =>
            /\ shutLog[m] = << >> => pm[m][1].external_port # 0
            /\ removeRes[m] = "ok" => (pm[m][1].external_port = 0 /\ supPc[m] = "done")
            /\ removeRes[m] = "err" => (pm[m][1].external_port # 0 /\ supPc[m] = "done")

C15_Witness ==
    /\ removeRes["m1"] = "ok"
    /\ pm["m1"][1].external_port = 0
    /\ supPc["m1"] = "done"

(***************************************************************************)
(* Properties of the supervisors, continued.                               *)
(***************************************************************************)

\* A step of mapping m's supervisor task.
SupStep(m) ==
    \/ supPc'[m] # supPc[m]
    \/ calls'[m] # calls[m]
    \/ failed'[m] # failed[m]
    \/ public'[m] # public[m]

\* C16 -- mappings are independent: a step of one mapping's supervisor (a
\* notifier call failing or returning, an address handled) changes nothing
\* of another mapping's channel, last_public, cursor, notifier calls, lease
\* or position, and a supervisor that waits in its select! with an address
\* in its channel can take it whatever the other supervisors are blocked in.
C16_Independent ==
    /\ [][\A m \in Mappings : SupStep(m) =>
              \A o \in Mappings \ {m} :
                  /\ rx'[o] = rx[o] /\ public'[o] = public[o]
                  /\ failed'[o] = failed[o] /\ calls'[o] = calls[o]
                  /\ supPc'[o] = supPc[o] /\ pm'[o] = pm[o]]_vars
    /\ [](\A m \in Mappings :
              (supPc[m] = "select" /\ rx[m] # << >>) => ENABLED SupRecv(m))

C16_Witness ==
    /\ supPc["m1"] = "publish" /\ prev["m1"].fail >= 0
    /\ supPc["m2"] = "select" /\ failed["m2"] = -1
    /\ Len(calls["m2"]) = NumWatchers
    /\ rx["m2"] # << >>

\* C17 -- the supervisor task terminates only by handling the shutdown
\* signal; when renew_port returns, with or without an error, the change
\* check and the notifier walk are made for that same address; and after
\* any error the supervisor is back in its select!, where it takes the next
\* address.
C17_ErrorsNeverTerminate ==
    /\ [][\A m \in Mappings :
              /\ (supPc[m] # "done" /\ supPc'[m] = "done") =>
                     \/ supPc[m] = "select" /\ closeRx[m] > 0
                     \/ supPc[m] = "remove" /\ shutLog[m] # << >>
              /\ (supPc[m] = "renew" /\ supPc'[m] # "renew") =>
                     /\ public'[m] = Some(AddrToString(addr[m][1]))
                     /\ supPc'[m] \in {"publish", "select"}
                     /\ calls'[m] # << >> <=> (~prev[m].same \/ prev[m].failed >= 0)
              /\ (supPc[m] = "publish" /\ supPc'[m] # "publish") =>
                     supPc'[m] = "select"]_vars
    /\ [](\A m \in Mappings :
              (supPc[m] = "select" /\ rx[m] # << >> /\ failed[m] >= 0) =>
                  ENABLED SupRecv(m))

C17_Witness ==
    /\ renewRes["m1"] = "err"
    /\ supPc["m1"] = "select"
    /\ prev["m1"].fail >= 0
    /\ calls["m1"] # << >> /\ LastOf(calls["m1"]).res = "err"

(***************************************************************************)
(* Properties of run().                                                    *)
(***************************************************************************)

\* Mapping k of the configuration has a metadata entry that names no
\* configured notifier or that its notifier's validate rejects.
HasBadEntry(k) == \E i \in 1..Len(cfgMap[k].md) : cfgMap[k].md[i] # "ok"

\* C18 -- if any metadata entry of any mapping names a notifier that is not
\* configured or is rejected by validate, run() does not return Ok and every
\* return it makes is an error; for the mapping with the invalid entry no
\* UPnP port is requested, no mapper is built and no supervisor is spawned.
C18_InvalidMetadataFails ==
    /\ [](\A k \in 1..Len(cfgMap) :
              HasBadEntry(k) =>
                  /\ runPc \in {"begin", "search", "loop", "add_port", "build", "err"}
                  /\ ~started[k].port /\ ~started[k].granted
                  /\ ~started[k].built /\ ~started[k].spawned
                  /\ runK <= k
                  /\ (runPc = "loop" /\ runK = k) => ENABLED RunMapping)
    /\ [][\A k \in 1..Len(cfgMap) :
              (HasBadEntry(k) /\ runPc = "loop" /\ runK = k) =>
                  (runPc' = "err" /\ runErr' \in {"metadata", "no watcher"}
                   /\ started' = started)]_vars

C18_Witness ==
    /\ Len(cfgMap) = 2
    /\ cfgMap[2].scheme = "udp+upnp" /\ HasBadEntry(2)
    /\ cfgMap[2].md[1] = "ok"
    /\ started[1].port /\ started[1].spawned
    /\ runPc = "err" /\ runErr \in {"metadata", "no watcher"}

\* The scheme contains upnp.
SchemeHasUpnp(scheme) == scheme \in {"tcp+upnp", "upnp+tcp", "udp+upnp", "upnp+udp"}

\* The relation of C19 between needing the gateway (req) and run(): when
\* needed, run() gets past the search only with a gateway, and a search that
\* finds none makes run() return an error; when not needed, no search is
\* made, so a missing gateway cannot make run() fail.
GatewayFatalIff(req) ==
    /\ req => (runPc \notin {"begin", "search", "err"} => gwSearch = "ok")
    /\ gwSearch = "timeout" => (runPc = "err" /\ runErr = "gateway")
    /\ ~req => (gwSearch = "none" /\ runPc # "search")

UdpTickStep == udpNextTx' # udpNextTx

\* C20 -- UDP server rotation: the first tick probes servers[0] without
\* rotating, every later tick advances the index by one modulo the pool
\* size whether or not the previous probe was answered, so after the k-th
\* tick (k ticks have drawn k transaction ids) the index is (k-1) mod n.
C20_ServerRotation ==
    /\ []((udpNextTx = 1) => (udpI = 0 /\ udpFirst))
    /\ []((udpNextTx > 1) => (udpI = (udpNextTx - 2) % NumServers /\ ~udpFirst))
    /\ [][UdpTickStep =>
              /\ udpNextTx' = udpNextTx + 1
              /\ udpI' = IF udpNextTx = 1 THEN 0 ELSE (udpI + 1) % NumServers]_vars

C20_Witness ==
    /\ udpNextTx = MaxTx + 1
    /\ udpI = (MaxTx - 1) % NumServers
    /\ udpPc = "select"
    /\ udpReq = Some(MaxTx)
    /\ udpGot = MaxTx - 1
    /\ rx[UdpM] # << >>

\* The scenario's servers: S1 and S2 are the first two entries of the pool.
S1 == 0

S2 == 1

\* The entry the tick numbered `tick` logs for the unanswered request `tid`
\* when it names `server`.
NoResponseEntry(tick, tid, server) == [tick |-> tick, tid |-> tid, server |-> server]

\* Tick #2 finds the probe of tick #1 unanswered and logs a no-response
\* error naming S1.
Tick2NamesS1 ==
    [][(UdpTickStep /\ Len(udpProbes) = 1 /\ udpReq # None) =>
           udpErrLog' = Append(udpErrLog, NoResponseEntry(2, udpReq[1], S1))]_vars

\* The reply to an outstanding probe that carries an address causes one
\* emission, and no transaction id is emitted twice.
ReplyEmitsOnce ==
    /\ [][(UdpRecvStep /\ udpReq # None /\ udpGot' = udpReq[1] /\ udpGotAddr' # None) =>
              (UdpEmit /\ udpEmitted' = Append(udpEmitted, udpGot') /\ udpOut' = udpGotAddr')]_vars
    /\ [][(UdpRecvStep /\ ~(udpReq # None /\ udpGot' = udpReq[1] /\ udpGotAddr' # None)) =>
              (~UdpEmit /\ udpEmitted' = udpEmitted)]_vars
    /\ [](\A j, k \in 1..Len(udpEmitted) : udpEmitted[j] = udpEmitted[k] => j = k)
    /\ [](\A k \in 1..Len(udpEmitted) : udpEmitted[k] \in 1..Len(udpProbes))

\* C21 (as stated) -- UDP rotation scenario, pool [S1, S2], S1 silent:
\* tick #2 logs a no-response error naming S1, the probe sent at tick #3
\* goes to S2, and S2's reply to that probe causes exactly one emission.
C21_RotationTick3ProbesS2 ==
    /\ Tick2NamesS1
    /\ [](Len(udpProbes) >= 3 => udpProbes[3] = S2)
    /\ ReplyEmitsOnce

\* C21 (amended) -- UDP rotation scenario, pool [S1, S2], S1 silent: tick
\* #1 probes S1; tick #2 logs a no-response error naming S1 and then
\* rotates, so the probe sent at tick #2 already goes to S2; the reply to
\* that probe causes exactly one emission; the probe sent at tick #3 goes to
\* the server after S2 (S1 again in a pool of two).
C21_RotationTick2ProbesS2 ==
    /\ Tick2NamesS1
    /\ [](Len(udpProbes) >= 1 => udpProbes[1] = S1)
    /\ [](Len(udpProbes) >= 2 => udpProbes[2] = S2)
    /\ [](Len(udpProbes) >= 3 => udpProbes[3] = (S2 + 1) % NumServers)
    /\ ReplyEmitsOnce

\* S1 never answered, tick #2 logged the error naming S1 and probed S2,
\* S2's reply was handled and emitted, and tick #3 has probed.
C21_Witness ==
    /\ udpErrLog = << NoResponseEntry(2, 1, S1) >>
    /\ udpEmitted = << 2 >>
    /\ Len(udpProbes) = 3
    /\ udpProbes[2] = S2
    /\ udpReq = Some(3)

(***************************************************************************)
(* Properties of the watchers' validation.                                 *)
(***************************************************************************)

\* validate has returned for a watcher of one of the given kinds.
Validated(kinds) == vIn # None /\ vRes # "none" /\ vIn[1].kind \in kinds

\* The metadata names a record type that is t in lowercase.
TypeIs(md, t) == md.kind # None /\ ToLowercase(md.kind[1]) = t

\* Metadata without domain or without record type is rejected by the three
\* DNS notifiers.
DnsRequiresDomainAndType ==
    Validated({"dnspod", "alidns", "cf"}) =>
        ((vIn[1].md.domain = None \/ vIn[1].md.kind = None) => vRes # "ok")

\* The given kinds of notifier reject the given record types when the
\* priority is absent.
RejectsWithoutPriority(kinds, types) ==
    Validated(kinds) =>
        (((\E t \in types : TypeIs(vIn[1].md, t)) /\ vIn[1].md.priority = None) => vRes # "ok")

\* C22 (as stated) -- dnspod, alidns and cf reject metadata that lacks
\* domain or record type, and each of them rejects SVCB, HTTPS and URI when
\* the priority is absent.
C22_AllRejectUriWithoutPriority ==
    /\ DnsRequiresDomainAndType
    /\ RejectsWithoutPriority({"dnspod", "alidns", "cf"}, {"svcb", "https", "uri"})

\* C22 (amended) -- dnspod, alidns and cf reject metadata that lacks domain
\* or record type and reject SVCB and HTTPS when the priority is absent;
\* only cf rejects URI without priority: dnspod and alidns accept a URI
\* entry without priority when its domain splits and (dnspod) its record id
\* is absent or numeric.
C22_OnlyCfRejectsUriWithoutPriority ==
    /\ DnsRequiresDomainAndType
    /\ RejectsWithoutPriority({"dnspod", "alidns", "cf"}, {"svcb", "https"})
    /\ RejectsWithoutPriority({"cf"}, {"uri"})
    /\ Validated({"dnspod", "alidns"}) =>
           ((/\ TypeIs(vIn[1].md, "uri")
             /\ vIn[1].md.domain # None
             /\ SplitDomainName(vIn[1].md.domain[1]) # None
             /\ (vIn[1].kind = "dnspod" => (vIn[1].md.rid = None \/ ParsesInt(vIn[1].md.rid[1]))))
            => vRes = "ok")

\* DnsPod::validate has accepted a URI entry that has no priority.
C22_Witness ==
    /\ Validated({"dnspod"})
    /\ vIn[1].md.kind = Some("URI")
    /\ vIn[1].md.priority = None
    /\ vRes = "ok"

\* The positions of the dots of a string.
Dots(b) == { i \in 1..Len(b) : b[i] = "." }

\* The domain without its trailing dot, if it has one.
WithoutTrailingDot(d) ==
    IF d # << >> /\ d[Len(d)] = "." THEN SubSeq(d, 1, Len(d) - 1) ELSE d

\* The string is made of at least two labels, all of them non-empty: it has
\* a dot, none at either end and no two in a row.
TwoOrMoreNonEmptyLabels(b) ==
    /\ Dots(b) # {}
    /\ 1 \notin Dots(b)
    /\ Len(b) \notin Dots(b)
    /\ \A i \in Dots(b) : i + 1 \notin Dots(b)

\* The string has fewer than two labels, or one of its last two labels is
\* empty.
NoSld(b) ==
    \/ Dots(b) = {}
    \/ LET last == CHOOSE i \in Dots(b) : \A j \in Dots(b) : j <= i IN
       \/ last = Len(b)
       \/ last = 1
       \/ last - 1 \in Dots(b)

\* C23 -- domain split law: for a domain of two or more non-empty labels,
\* with or without one trailing dot, split_domain_name returns an SLD made
\* of two labels and a subdomain such that subdomain + "." + SLD is the
\* domain without the trailing dot (the SLD alone when the subdomain is
\* empty); it returns None exactly when, the trailing dot aside, fewer than
\* two labels remain or one of the last two labels is empty.
C23_DomainSplitLaw ==
    (sIn # None /\ sOut # None) =>
        LET b == WithoutTrailingDot(sIn[1]) IN
        /\ TwoOrMoreNonEmptyLabels(b) =>
               /\ sOut[1] # None
               /\ LET sld == sOut[1][1][1]
                      sub == sOut[1][1][2]
                  IN /\ Cardinality(Dots(sld)) = 1
                     /\ TwoOrMoreNonEmptyLabels(sld)
                     /\ IF sub = << >> THEN sld = b ELSE sub \o << "." >> \o sld = b
        /\ (sOut[1] = None) <=> NoSld(b)

\* a.b.a. has been split into the SLD b.a and the subdomain a.
C23_Witness ==
    /\ sIn = Some(<< "a", ".", "b", ".", "a", "." >>)
    /\ sOut = Some(Some(<< << "b", ".", "a" >>, << "a" >> >>))

(***************************************************************************)
(* Properties of the TCP worker's keepalive session and of Task B.         *)
(***************************************************************************)

\* C24 -- no HEAD request is written while a response deadline is pending:
\* a request is written only when none is outstanding, so at most one
\* request is outstanding without a byte read since it was written, and a
\* deadline is pending exactly while one is.
C24_OneOutstandingHead ==
    /\ [](headOut <= 1)
    /\ [](taPc \in {"session", "send"} => (deadline <=> headOut = 1))
    /\ [](deadline => ~ENABLED TaKeepalive(TRUE))
    /\ [][headOut' > headOut => (~deadline /\ headOut = 0 /\ deadline' /\ headOut' = 1)]_vars

\* A HEAD request is outstanding in a session that has published its
\* address, after an earlier request of the session was answered.
C24_Witness ==
    /\ taPc = "session"
    /\ deadline
    /\ headOut = 1
    /\ mappedAddr # None
    /\ stunSig

\* A step that ends the keepalive session for the given reason.
SessionEnds(cause) == taPc = "session" /\ endCause = "none" /\ endCause' = cause

\* The session is over: the inner loop was left.
TornDown == taPc \in {"sleep", "reset"} /\ ~deadline /\ mappedAddr = None

\* C25 -- keepalive response deadline: while a HEAD request is outstanding
\* the deadline can fire, and it fires only if no byte was read since the
\* request was written, tearing the session down; a read of at least one
\* byte clears the pending deadline, which re-enables the keepalive tick; a
\* read of 0 bytes or a read error tears the session down.
C25_ResponseDeadline ==
    /\ []((taPc = "session" /\ deadline /\ ~aborted[TcpM]) => ENABLED TaDeadline)
    /\ [][SessionEnds("deadline") =>
              (deadline /\ headOut = 1 /\ ~gotData /\ TornDown')]_vars
    /\ [][(taPc = "session" /\ deadline /\ gotData') =>
              (~deadline' /\ taPc' = "session" /\ headOut' = 0)]_vars
    /\ []((taPc = "session" /\ gotData /\ ~aborted[TcpM]) =>
              (~deadline /\ ENABLED TaKeepalive(TRUE)))
    /\ [][(SessionEnds("eof") \/ SessionEnds("err")) => TornDown']_vars

\* The deadline of a HEAD request has fired in a session that had published
\* its address, and the session was torn down.
C25_Witness ==
    /\ endCause = "deadline"
    /\ taPc = "sleep"
    /\ tdLog = << "drop", "cancel" >>
    /\ sentCur # None

\* Why a keepalive session can end.
EndCauses == {"eof", "err", "write", "deadline", "churn"}

\* C26 -- every end of a keepalive session, whatever its cause, drops the
\* socket, then sends exactly one cancel signal to Task B (waiting for room
\* in the channel if need be), then sleeps RETRY_INTERVAL, then dials again;
\* a failed dial sends no cancel signal and is retried after the sleep.
C26_TeardownOrder ==
    /\ [][(taPc = "session" /\ taPc' \notin {"session", "send"}) =>
              (\E c \in EndCauses : SessionEnds(c)) /\ TornDown']_vars
    /\ [](taPc = "reset" => (endCause \in EndCauses /\ tdLog = << "drop" >>))
    /\ [](taPc = "sleep" =>
              \/ endCause \in EndCauses /\ tdLog = << "drop", "cancel" >>
              \/ endCause = "dial" /\ tdLog = << >>)
    /\ [](taPc = "dial" =>
              \/ endCause = "none" /\ tdLog = << >>
              \/ endCause \in EndCauses /\ tdLog = << "drop", "cancel", "sleep" >>
              \/ endCause = "dial" /\ tdLog = << "sleep" >>)
    /\ [][resetQ' > resetQ <=>
              (tdLog' # tdLog /\ tdLog' = << "drop", "cancel" >>)]_vars
    /\ [][(taPc = "dial" /\ taPc' \notin {"dial", "session"}) =>
              (taPc' = "sleep" /\ endCause' = "dial" /\ resetQ' = resetQ)]_vars
    /\ \A c \in EndCauses :
           (endCause = c /\ taPc \in {"reset", "sleep"}) ~>
               (endCause = c /\ taPc = "dial" /\ tdLog = << "drop", "cancel", "sleep" >>)
    /\ (endCause = "dial" /\ taPc = "sleep") ~>
           (endCause = "dial" /\ taPc = "dial" /\ tdLog = << "sleep" >>)

\* A session that ended because the mapped address changed found the cancel
\* channel full, sent its cancel signal once Task B had made room, slept and
\* is dialling again.
C26_Witness ==
    /\ endCause = "churn"
    /\ taPc = "dial"
    /\ tdLog = << "drop", "cancel", "sleep" >>
    /\ resetQ = 1

\* Task B takes a cancel signal from the reset channel.
CancelHandled == resetQ' < resetQ

\* A probe attempt of Task B completes, with or without an address.
ProbeCompleted == tbPc = "probe" /\ tbPc' = "wait" /\ ~CancelHandled

\* C27 -- Task B's server index advances by one modulo the pool size when
\* a probe attempt completes, successfully or not, and at no other time: a
\* probe abandoned because of a cancel signal leaves the index alone, so the
\* next probe goes to the same server.
C27_IndexAdvance ==
    /\ [][ProbeCompleted => tbI' = (tbI + 1) % NumServers]_vars
    /\ [][~ProbeCompleted => tbI' = tbI]_vars
    /\ [][(CancelHandled /\ tbPc = "probe") => (tbI' = tbI /\ tbPc' = "wait")]_vars
    /\ [](tbI \in 0..(NumServers - 1))

\* A probe to the second server was abandoned on a cancel signal after the
\* probe to the first server had completed; the index still names the
\* second server.
C27_Witness ==
    /\ tbI = 1
    /\ tbPc = "wait"
    /\ abandoned
    /\ lastCand # None
    /\ resetQ = 0
    /\ endCause = "churn"

\* A value is written to the address-candidate channel.
CandidateWritten == addrVal' # addrVal \/ lastCand' # lastCand \/ (addrSig' /\ ~addrSig)

\* Task B starts a probe.
ProbeStarted == tbPc # "probe" /\ tbPc' = "probe"

\* C28 -- When Task B handles a cancel signal, a probe in flight is
\* abandoned and writes nothing to the address-candidate channel, and a
\* trigger not yet consumed is discarded: Task B starts no probe until a
\* trigger is sent after the cancel was handled.
C28_CancelDiscards ==
    /\ [][CancelHandled => (tbPc' = "wait" /\ ~stunSig' /\ ~CandidateWritten)]_vars
    /\ [][CandidateWritten => ProbeCompleted]_vars
    /\ [][ProbeStarted => (stunSig /\ ~stunSig' /\ ~CancelHandled)]_vars
    /\ [][(stunSig' /\ ~stunSig) => (taPc = "session" /\ ~CancelHandled /\ ~ProbeStarted)]_vars
    /\ [](abandoned => tbPc = "wait")

\* A cancel signal was taken while the first probe was in flight: nothing
\* was ever written to the address-candidate channel and no trigger waits.
C28_Witness ==
    /\ abandoned
    /\ tbPc = "wait"
    /\ ~stunSig
    /\ lastCand = None
    /\ ~addrSig
    /\ resetQ = 0

\* A keepalive session of Task A ends.
SessionEnded == taPc = "session" /\ taPc' \notin {"session", "send"}

\* Every channel holds at most one pending value, the two watch channels
\* never block their sender, and Task A reads the value sent last.
OneSlotLatestValue ==
    /\ [](resetQ \in 0..1)
    /\ [](taPc = "session" => ENABLED TaStunTick)
    /\ [](tbPc = "probe" => ENABLED TbProbeDone(TRUE))
    /\ [][(ProbeCompleted /\ CandidateWritten) =>
              (addrSig' /\ addrVal' = natAddr /\ lastCand' = Some(natAddr))]_vars
    /\ [](addrSig => (lastCand # None /\ addrVal = lastCand[1]))
    /\ [][(taPc = "session" /\ addrSig /\ ~addrSig' /\ mappedAddr = None) =>
              mappedAddr' = lastCand]_vars

SupportedSchemes == {"tcp", "tcp+upnp", "upnp+tcp", "udp", "udp+upnp", "upnp+udp"}

\* Mapping k is one for which a PortMap is to be requested.
UsesUpnp(k) == SchemeHasUpnp(cfgMap[k].scheme) \/ cfgUpnp \in {None, Some(TRUE)}

\* run() has got to the construction of the mapper of mapping k.
Dispatched(k) == started[k].local_addr # None

\* C30 -- a mapping requests a UPnP PortMap at startup if and only if its
\* scheme is one of tcp+upnp, upnp+tcp, udp+upnp, upnp+udp or global UPnP
\* is on; the mapper of a mapping with a PortMap is built with the local
\* address 0.0.0.0:<external_port> of that PortMap, the mapper of any other
\* mapping with the ip:port of its key; a mapping whose scheme is not one of
\* the six supported ones makes run() return an error.
C30_SchemeDispatch ==
    /\ [](\A k \in 1..Len(cfgMap) :
              /\ started[k].port => (UsesUpnp(k) /\ cfgMap[k].scheme \in SupportedSchemes)
              /\ Dispatched(k) => (started[k].port <=> UsesUpnp(k))
              /\ (Dispatched(k) /\ started[k].port) =>
                     /\ started[k].granted
                     /\ started[k].external_port \in GwPorts
                     /\ started[k].local_addr =
                            Some([ip |-> "0.0.0.0", port |-> started[k].external_port])
              /\ (Dispatched(k) /\ ~started[k].port) =>
                     started[k].local_addr = Some(cfgMap[k].addr)
              /\ started[k].built => Dispatched(k)
              /\ cfgMap[k].scheme \notin SupportedSchemes =>
                     /\ runPc # "ok" /\ runK <= k
                     /\ ~started[k].port /\ ~Dispatched(k) /\ ~started[k].built)
    /\ [][\A k \in 1..Len(cfgMap) :
              (runPc = "loop" /\ runK = k /\ runPc' # "loop" /\ ~HasBadEntry(k)) =>
                  IF cfgMap[k].scheme \notin SupportedSchemes
                  THEN runPc' = "err" /\ runErr' = "scheme" /\ started' = started
                  ELSE IF UsesUpnp(k)
                  THEN runPc' = "add_port" /\ started'[k].port /\ ~Dispatched(k)'
                  ELSE runPc' = "build" /\ ~started'[k].port /\ Dispatched(k)']_vars
    /\ [][\A k \in 1..Len(cfgMap) : Dispatched(k) => started'[k].local_addr = started[k].local_addr]_vars

\* With global UPnP off, the mapper of upnp+udp://192.168.1.2:6000 was built
\* on 0.0.0.0:5001, the port of its PortMap, and run() has failed on the
\* second mapping, whose scheme is http.
C30_Witness ==
    /\ cfgUpnp = Some(FALSE)
    /\ Len(cfgMap) = 2
    /\ cfgMap[1].scheme = "upnp+udp" /\ cfgMap[1].addr = [ip |-> "192.168.1.2", port |-> 6000]
    /\ started[1].port /\ started[1].built
    /\ started[1].local_addr = Some([ip |-> "0.0.0.0", port |-> 5001])
    /\ cfgMap[2].scheme = "http"
    /\ runPc = "err" /\ runErr = "scheme"

\* The supervisor of m waits for its next event and has handled an address.
Waiting(m) == supPc[m] = "select" /\ public[m] # None

\* The last successful delivery to notifier i of m carried last_public.
UpToDate(m, i) == delivered[m][i] = public[m]

\* C31 -- delivery consistency: whenever the supervisor waits for its next
\* event after having handled at least one address, with cursor -1 the last
\* successful delivery of every configured notifier carried the address
\* equal to last_public, and with cursor j >= 0 that holds for every
\* notifier with an index below j.
C31_DeliveryConsistency ==
    \A m \in Mappings :
        Waiting(m) =>
            /\ failed[m] \in -1..(NumWatchers - 1)
            /\ failed[m] = -1 => \A i \in 0..(NumWatchers - 1) : UpToDate(m, i)
            /\ failed[m] >= 0 => \A i \in 0..(failed[m] - 1) : UpToDate(m, i)

\* m1 has delivered the second address to notifier 0 only: notifier 1
\* failed on it after having taken the first address.
C31_Witness ==
    /\ Waiting("m1") /\ failed["m1"] = 1
    /\ delivered["m1"][0] = public["m1"]
    /\ delivered["m1"][1] # None /\ delivered["m1"][1] # public["m1"]

\* The supervisor of the TCP mapping takes an address from its channel.
AddressEvent == Len(rx[TcpM]) > 0 /\ rx'[TcpM] = Tail(rx[TcpM])

\* The keepalive session has published its canonical address, the
\* supervisor has handled it with a notifier failing, and the session goes on.
SessionStaysUp ==
    /\ taPc = "session" /\ mappedAddr # None /\ Drained
    /\ supPc[TcpM] = "select" /\ failed[TcpM] >= 0
    /\ taPc' = "session"

\* C32 -- the supervisor invokes notifiers only while it handles an address
\* received from its mapper and never retries by itself: a failed notifier
\* is invoked again only upon a later address event.  In a TCP mapping
\* whose keepalive session stays up after publishing its canonical address
\* no such event comes, so the failed notifier is not invoked again until a
\* later session publishes.
C32_NoRetryWithoutEvent ==
    /\ [][CallStarted(TcpM) => (supPc[TcpM] = "publish" \/ AddressEvent)]_vars
    /\ [][(supPc[TcpM] = "select" /\ ~AddressEvent) =>
              (supPc'[TcpM] = "select" /\ calls'[TcpM] = calls[TcpM]
               /\ failed'[TcpM] = failed[TcpM])]_vars
    /\ [][(supPc[TcpM] = "publish" /\ failed'[TcpM] >= 0) => supPc'[TcpM] = "select"]_vars
    /\ [][Len(rx'[TcpM]) > Len(rx[TcpM]) =>
              (taPc = "send" /\ taPc' = "session" /\ sessPub = << mappedAddr[1] >>)]_vars
    /\ [][SessionStaysUp =>
              (rx'[TcpM] = rx[TcpM] /\ supPc'[TcpM] = "select" /\ calls'[TcpM] = calls[TcpM]
               /\ failed'[TcpM] = failed[TcpM] /\ sessPub' = sessPub)]_vars

\* Notifier 0 failed on the address of the running session, which has since
\* written a HEAD request and read the answer.
C32_Witness ==
    /\ taPc = "session" /\ mappedAddr # None /\ Drained
    /\ supPc[TcpM] = "select" /\ failed[TcpM] = 0
    /\ calls[TcpM] = << [idx |-> 0, res |-> "err"] >>
    /\ public[TcpM] = Some(AddrToString(mappedAddr[1]))
    /\ gotData

\* The transaction ids in a log of emissions.
Ids(log) == { log[k] : k \in 1..Len(log) }

\* A step in which the worker handles a datagram that carries the
\* outstanding transaction id.
MatchingReply == UdpRecvStep /\ udpReq # None /\ udpGot' = udpReq[1]

\* C33 -- in the UDP mapper each transaction id produces at most one
\* emitted address: the outstanding slot is cleared as soon as a datagram
\* with the matching id is handled, also when it has no parsable
\* XOR-MAPPED-ADDRESS (then nothing is emitted), so later datagrams with
\* the same id are ignored.
C33_OneEmissionPerId ==
    /\ [](\A h, k \in 1..Len(udpEmitted) : h # k => udpEmitted[h] # udpEmitted[k])
    /\ [](udpReq # None => (udpReq[1] < udpNextTx /\ udpReq[1] \notin Ids(udpEmitted)))
    /\ [](\A t \in Ids(udpEmitted) : t < udpNextTx)
    /\ [][MatchingReply =>
              /\ udpReq' = None
              /\ IF udpGotAddr' = None
                 THEN ~UdpEmit /\ udpEmitted' = udpEmitted /\ udpOut' = udpOut
                 ELSE UdpEmit /\ udpEmitted' = Append(udpEmitted, udpGot')]_vars
    /\ [][(udpReq' # udpReq /\ udpReq' # None) => udpReq'[1] = udpNextTx]_vars
    /\ [][(UdpRecvStep /\ ~MatchingReply) =>
              (~UdpEmit /\ udpEmitted' = udpEmitted /\ udpReq' = udpReq)]_vars

\* The id sent last was cleared by a reply without an address; the same id
\* has come again with an address and has been ignored.
C33_Witness ==
    /\ udpPc = "select"
    /\ udpReq = None
    /\ udpSent >= 1 /\ udpSent \notin Ids(udpEmitted)
    /\ udpGot = udpSent /\ udpGotAddr # None
    /\ udpEmitted # << >>

\* A tick whose send_request fails: no id is recorded as sent.
SendFailed == UdpTickStep /\ udpSent' = udpSent

\* The tick at which the outstanding id was sent, and the ticks since.
SentAt == udpReq[1]

\* C34 -- when sending the Binding Request fails on a UDP tick, the server
\* index has advanced all the same and the outstanding slot is unchanged: an
\* id that was unanswered stays outstanding, a late reply that carries it
\* is accepted and emitted, and the next tick reports it as unanswered
\* against the server that is current then.
C34_SendFailureKeepsSlot ==
    /\ [][SendFailed =>
              /\ udpReq' = udpReq
              /\ udpI' = IF udpFirst THEN udpI ELSE (udpI + 1) % NumServers
              /\ udpProbes' = Append(udpProbes, udpI')]_vars
    /\ [][(UdpTickStep /\ udpReq # None) =>
              udpErrLog' = Append(udpErrLog, [tick |-> Len(udpProbes) + 1,
                                              tid |-> udpReq[1], server |-> udpI])]_vars
    /\ [](udpReq # None =>
              /\ SentAt \in 1..Len(udpProbes) /\ SentAt = udpSent
              /\ udpI = udpProbes[Len(udpProbes)]
              /\ (ENABLED UdpRecv([parse |-> TRUE, tid |-> 0, xor |-> None]) /\ udpPc = "select")
                     => \A a \in Addrs :
                            ENABLED (UdpRecv([parse |-> TRUE, tid |-> SentAt, xor |-> Some(a)])
                                     /\ udpPc' = "send" /\ udpOut' = Some(a)))

\* The request of tick 1 went out, the sends of ticks 2 and 3 failed, tick 3
\* reported id 1 as unanswered by the server of tick 2, and the late reply
\* to id 1 has been emitted.
C34_Witness ==
    /\ Len(udpProbes) = 3 /\ udpSent = 1
    /\ udpEmitted = << 1 >>
    /\ udpProbes[2] # udpProbes[1]
    /\ \E k \in 1..Len(udpErrLog) :
           udpErrLog[k] = [tick |-> 3, tid |-> 1, server |-> udpProbes[2]]

\* C35 -- in a TCP mapper at most one STUN-over-TCP probe is in flight at
\* any time, and the probe-now triggers sent while a probe is in flight
\* coalesce: after that probe completes at most one further probe is
\* started for all of them.
C35_ProbesCoalesce ==
    /\ [](tbPc = "probe" => ~ENABLED TbStartLogged)
    /\ [](starts <= 1)
    /\ [](trigs >= 1 => stunSig)
    /\ [][trigs' > trigs => (tbPc = "probe" /\ tbPc' = "probe" /\ stunSig')]_vars
    /\ [][ProbeStarted => (~stunSig' /\ trigs' = 0 /\ coalesced' = trigs)]_vars

\* Two triggers were sent while a probe was in flight; one further probe
\* was started for both and has completed, and no trigger is pending.
C35_Witness ==
    /\ coalesced = 2
    /\ starts = 1
    /\ tbPc = "wait"
    /\ ~stunSig
    /\ taPc = "session"
    /\ lastCand # None

\* Task A takes the candidate from the address channel: it adopts it as
\* canonical and publishes it, or compares it with the canonical address.
CandidateTaken == taPc = "session" /\ addrSig /\ ~addrSig'

\* C36 -- an address candidate produced by a probe that was started during
\* keepalive session k is never adopted as canonical, published, or compared
\* with the canonical address in a later session, under every interleaving
\* of Task A and Task B.
C36_NoStaleCandidate == [][CandidateTaken => ~candOld]_vars

\* C37 -- Closer::close completes normally for every number N >= 0 of
\* configured mappings, N = 0 included: it sends the broadcast without
\* panicking and returns after every supervisor task has finished.
C37_CloseCompletes ==
    /\ [](closer # "panicked")
    /\ [](closer = "returned" => \A m \in Spawned : supPc[m] = "done")
    /\ (closer = "joining" ~> closer = "returned")

\* run() has returned, with Ok(Closer) or with an error.
RunEnded == runPc \in {"ok", "err"}

\* C38 -- every UPnP lease that add_port obtained during startup ends up
\* owned by a spawned supervisor, which attempts remove_port on shutdown: no
\* startup path, the construction of that mapping's mapper failing or a
\* later mapping failing validation included, leaves an acquired lease
\* without a supervisor to remove it.
C38_LeasesOwned ==
    RunEnded => \A k \in 1..Len(cfgMap) : started[k].granted => started[k].spawned

\* The UDP worker waits in callback.send for room in the channel.
SendBlocked == udpPc = "send" /\ Len(rx[UdpM]) = 1

\* C39 -- the channel from the mapper to the supervisor buffers at most
\* one address and delivers the addresses in the order of their emission,
\* none lost; while the UDP worker is blocked sending into the full channel
\* it handles neither timer ticks nor datagrams, so it sends no STUN probe
\* until the supervisor receives.
C39_OneSlotChannel ==
    /\ [](Len(rx[UdpM]) <= 1)
    /\ [](chanIn = chanOut \o rx[UdpM])
    /\ [](SendBlocked => /\ ~ENABLED UdpSendLogged
                         /\ \A ok \in BOOLEAN : ~ENABLED UdpTick(ok)
                         /\ \A d \in Datagrams : ~ENABLED UdpRecv(d))
    /\ [][SendBlocked => /\ udpProbes' = udpProbes
                         /\ udpNextTx' = udpNextTx
                         /\ udpReq' = udpReq
                         /\ (udpPc' # "send" => Len(rx[UdpM]) = 0)
                         /\ (rx'[UdpM] # rx[UdpM] => (supPc[UdpM] = "select" /\ rx'[UdpM] = << >>))]_vars

\* The supervisor walks its notifiers with the first address, the second
\* one, which differs, is buffered, and the worker waits to send a third.
C39_Witness ==
    /\ SendBlocked
    /\ supPc[UdpM] = "publish"
    /\ Len(chanOut) = 1
    /\ rx[UdpM][1] # chanOut[1]
    /\ chanIn = chanOut \o rx[UdpM]
    /\ udpOut # None

====
